---- MODULE Spec2Model ----
(***************************************************************************)
(* bgpkit: the longest-prefix-match routing table (bgpkit/rt.py), the RIB  *)
(* built on it and the per-peer session loop of the server                 *)
(* (bgpkit/server.py, bgpkit/session.py).                                  *)
(*                                                                         *)
(* Addresses are AddrBits wide instead of 32/128 bits, and the tuning      *)
(* parameters of the trie (splits, split_min1) are scaled with them, so    *)
(* that a node can reach the children threshold within the bounds.         *)
(***************************************************************************)
EXTENDS Integers, Sequences, FiniteSets, TLC

VARIABLES
    rt,         \* RoutingTable._root of the table under test
    lastOp,     \* the last operation applied to rt and how it ended
    tuning,     \* RoutingTable.splits and RoutingTable.split_min1
    rtA, rtB,   \* two tables filled from the same pairs in two orders
    todoA, todoB, pairs,
    rib,        \* a RIB: its registered protocols and their tables
    ribLog,     \* the last operations applied to rib, the latest last
    cfg,        \* hold_time and keepalive_time configured for the peer
    sess,       \* the ServerSession of every connection of the peer
    sessions,   \* BGPServer.sessions: peer_id -> connection
    base,       \* the template session of the peer in BGPServer.peers
    loc_rib,    \* RoutingServer.loc_rib
    capS,       \* a Session whose capabilities are negotiated
    capM,       \* the OPEN that capS has loaded, NoMsg before
    made,       \* the OPEN that capS has made, NoMsg before
    peers,      \* BGPServer.peers: the configured peers and their retry state
    running,    \* whether BGPServer.start has run
    cin,        \* the object handed to the encoder, or the buffer
    cout        \* what was computed from cin so far, the latest last

rtVars == <<rt, lastOp, tuning>>
orderVars == <<rtA, rtB, todoA, todoB, pairs>>
ribVars == <<rib, ribLog>>
fsmVars == <<cfg, sess, sessions, base, loc_rib>>
capVars == <<capS, capM, made>>
retryVars == <<peers, running>>
codecVars == <<cin, cout>>

\* what an operation on one component leaves alone
OnlyRT ==
    UNCHANGED <<orderVars, ribVars, fsmVars, capVars, retryVars, codecVars>>
OnlyOrder ==
    UNCHANGED <<rtVars, ribVars, fsmVars, capVars, retryVars, codecVars>>
OnlyRIB ==
    UNCHANGED <<rtVars, orderVars, fsmVars, capVars, retryVars, codecVars>>
OnlyFSM ==
    UNCHANGED <<rtVars, orderVars, ribVars, capVars, retryVars, codecVars>>
OnlyCaps ==
    UNCHANGED <<rtVars, orderVars, ribVars, fsmVars, retryVars, codecVars>>
OnlyRetry ==
    UNCHANGED <<rtVars, orderVars, ribVars, fsmVars, capVars, codecVars>>
OnlyCodec ==
    UNCHANGED <<rtVars, orderVars, ribVars, fsmVars, capVars, retryVars>>

(***************************************************************************)
(* Bounds                                                                  *)
(***************************************************************************)
\* width of an address in bits
AddrBits == 3
\* most (prefix, value) pairs inserted in the order-independence runs
MaxPairs == 3
\* how many of the last RIB operations are remembered
MaxLog == 2

\* values stored in a table
Values == {"a", "b"}

(***************************************************************************)
(* IP primitives (netaddr.IPNetwork / netaddr.IPAddress)                   *)
(***************************************************************************)
Net(l, b) == [kind |-> "net", len |-> l, bits |-> b]
Addr(b) == [kind |-> "addr", len |-> AddrBits, bits |-> b]

\* the networks that are inserted: the default network, a chain of nested
\* prefixes, and siblings that share a supernet of a split length
Nets == {Net(0, 0), Net(1, 0), Net(1, 1), Net(2, 0), Net(2, 1), Net(3, 3)}
Addrs == {Addr(b) : b \in 0..(2^AddrBits - 1)}
Keys == Nets \cup Addrs

\* `inner in outer`: the range of inner lies in the range of outer
NetIn(inner, outer) ==
    /\ outer.len <= inner.len
    /\ inner.bits \div (2^(inner.len - outer.len)) = outer.bits

\* net.supernet(l)[0]
supernet(net, l) == Net(l, net.bits \div (2^(net.len - l)))

(***************************************************************************)
(* Trie nodes                                                              *)
(***************************************************************************)
\* a _Node has no data slot
Node(net) == [cls |-> "_Node", net |-> net, children |-> {}]
DataNode(net, data) ==
    [cls |-> "_DataNode", net |-> net, data |-> data, children |-> {}]
isDataNode(node) == node.cls = "_DataNode"

\* the tuning parameters of RoutingTable, scaled to AddrBits
splits == {1, 2}
split_min1 == 1

RECURSIVE lookup_chain(_, _)
lookup_chain(node, net) ==
    IF node.net = net THEN <<node>>
    ELSE LET cs == {c \in node.children : NetIn(net, c.net)} IN
         IF cs = {} THEN <<node>>
         ELSE <<node>> \o lookup_chain(CHOOSE c \in cs : TRUE, net)

node_lookup(node, net) ==
    LET chain == lookup_chain(node, net) IN chain[Len(chain)]

RECURSIVE node_iter(_)
node_iter(node) ==
    {node} \cup UNION {node_iter(c) : c \in node.children}

\* the object graph after chain[Len(chain)] was replaced by `new` in the
\* children set of its parent (children.remove(node); children.add(new))
RECURSIVE ReplaceOnChain(_, _, _)
ReplaceOnChain(chain, i, new) ==
    IF i = Len(chain) THEN new
    ELSE [chain[i] EXCEPT !.children =
              (@ \ {chain[i + 1]}) \cup {ReplaceOnChain(chain, i + 1, new)}]

Min(S) == CHOOSE x \in S : \A y \in S : x <= y

\* the class attributes splits and split_min1 as they are set above
DefaultTuning == [splits |-> splits, split_min1 |-> split_min1]

\* a rearrangement that leaves every child of `node` where it is
rearrange_flat(node, net, ins_node, t) == {ins_node} \cup node.children

\* the children of `node` after ins_node was put below it (rt.py 133-175),
\* for the splits and split_min1 of t
rearrange_tuned(node, net, ins_node, t) ==
    LET cand == {s \in t.splits : s > node.net.len /\ net.len >= s}
        inIns == {c \in node.children : NetIn(c.net, net)}
    IN  IF cand = {} \/ Cardinality(node.children) < t.split_min1
           \/ Min(cand) = net.len
        THEN {[ins_node EXCEPT !.children = inIns]}
                 \cup (node.children \ inIns)
        ELSE LET splnet == supernet(net, Min(cand))
                 inSpl == {c \in node.children \ inIns : NetIn(c.net, splnet)}
                 spl_node == [Node(splnet) EXCEPT !.children =
                                 {[ins_node EXCEPT !.children = inIns]}
                                     \cup inSpl]
             IN  {spl_node} \cup (node.children \ (inIns \cup inSpl))
rearrange(node, net, ins_node) ==
    rearrange_tuned(node, net, ins_node, DefaultTuning)

\* RoutingTable._insert_node: the root after the insertion
insert_node_tuned(root, net, ins_node, t) ==
    IF net = root.net THEN [ins_node EXCEPT !.children = root.children]
    ELSE LET nodes == lookup_chain(root, net)
             node == nodes[Len(nodes)]
         IN  IF node.net = net
             THEN ReplaceOnChain(nodes, 1,
                      [ins_node EXCEPT !.children = node.children])
             ELSE ReplaceOnChain(nodes, 1,
                      [node EXCEPT !.children =
                          rearrange_tuned(node, net, ins_node, t)])
insert_node(root, net, ins_node) ==
    insert_node_tuned(root, net, ins_node, DefaultTuning)

add_stub(root, net) == insert_node(root, net, Node(net))

\* RoutingTable.lookup: [ok, net, data], ok = FALSE for KeyError
KeyError == [ok |-> FALSE]
Found(node) == [ok |-> TRUE, net |-> node.net, data |-> node.data]

lookup(root, net, exact) ==
    LET node == node_lookup(root, net) IN
    IF isDataNode(node) /\ (~exact \/ node.net = net)
    THEN Found(node) ELSE KeyError

getitem(root, net) == lookup(root, net, TRUE)

\* a remove that forgets the children of the removed node
remove_dropping_children(root, net) ==
    LET nodes == lookup_chain(root, net)
        node == nodes[Len(nodes)]
    IN  IF node.net # net \/ ~isDataNode(node)
        THEN [ok |-> FALSE, root |-> root]
        ELSE [ok |-> TRUE, root |-> ReplaceOnChain(nodes, 1, Node(net))]

\* a remove that takes any node with the net for a stored one
remove_any_node(root, net) ==
    LET nodes == lookup_chain(root, net)
        node == nodes[Len(nodes)]
    IN  IF node.net # net
        THEN [ok |-> FALSE, root |-> root]
        ELSE [ok |-> TRUE,
              root |-> ReplaceOnChain(nodes, 1,
                           [Node(net) EXCEPT !.children = node.children])]

\* RoutingTable.remove: [ok, root]
remove(root, net) ==
    LET nodes == lookup_chain(root, net)
        node == nodes[Len(nodes)]
    IN  IF node.net # net \/ ~isDataNode(node)
        THEN [ok |-> FALSE, root |-> root]
        ELSE [ok |-> TRUE,
              root |-> ReplaceOnChain(nodes, 1,
                           [Node(net) EXCEPT !.children = node.children])]

setitem(root, net, val) == insert_node(root, net, DataNode(net, val))

EmptyTable == Node(Net(0, 0))

\* what a table stores: the (net, value) of every data node
Stored(root) == {<<n.net, n.data>> : n \in {m \in node_iter(root) : isDataNode(m)}}
StoredNets(root) == {p[1] : p \in Stored(root)}

(***************************************************************************)
(* The table under a sequence of add and remove operations                 *)
(***************************************************************************)
NoOp == [op |-> "none"]

RTInit ==
    /\ rt = EmptyTable
    /\ lastOp = NoOp
    /\ tuning = DefaultTuning

Add(net, val) ==
    /\ rt' = setitem(rt, net, val)
    /\ lastOp' = [op |-> "add", net |-> net, val |-> val, ok |-> TRUE]
    /\ UNCHANGED tuning
    /\ OnlyRT

Remove(net) ==
    /\ rt' = remove(rt, net).root
    /\ lastOp' = [op |-> "remove", net |-> net, ok |-> remove(rt, net).ok]
    /\ UNCHANGED tuning
    /\ OnlyRT

RTNext ==
    \/ \E net \in Nets, val \in Values : Add(net, val)
    \/ \E net \in Nets : Remove(net)

\* the table under add operations only
RTAddNext == \E net \in Nets, val \in Values : Add(net, val)

\* the table under add, add_stub and remove, for several split-length lists
\* and children thresholds
Tunings ==
    [splits : {{}, {2}, {1, 2}, {1, 2, 3}}, split_min1 : {0, 1, 2}]
TreeInit ==
    /\ rt = EmptyTable
    /\ lastOp = NoOp
    /\ tuning \in Tunings
TreeAdd(net, val) ==
    /\ rt' = insert_node_tuned(rt, net, DataNode(net, val), tuning)
    /\ UNCHANGED <<lastOp, tuning>>
    /\ OnlyRT
TreeAddStub(net) ==
    /\ rt' = insert_node_tuned(rt, net, Node(net), tuning)
    /\ UNCHANGED <<lastOp, tuning>>
    /\ OnlyRT
TreeRemove(net) ==
    /\ rt' = remove(rt, net).root
    /\ UNCHANGED <<lastOp, tuning>>
    /\ OnlyRT
TreeNext ==
    \/ \E net \in Nets, val \in Values : TreeAdd(net, val)
    \/ \E net \in Nets : TreeAddStub(net)
    \/ \E net \in Nets : TreeRemove(net)

(***************************************************************************)
(* Two tables filled from one set of pairs in two orders                   *)
(***************************************************************************)
\* sets of (prefix, value) pairs with distinct prefixes
PairSets ==
    {ps \in SUBSET (Nets \X Values) :
        /\ Cardinality(ps) <= MaxPairs
        /\ \A p, q \in ps : p[1] = q[1] => p = q}

OrderInit ==
    /\ pairs \in PairSets
    /\ todoA = pairs /\ todoB = pairs
    /\ rtA = EmptyTable /\ rtB = EmptyTable

InsertA(p) ==
    /\ p \in todoA
    /\ rtA' = setitem(rtA, p[1], p[2])
    /\ todoA' = todoA \ {p}
    /\ UNCHANGED <<rtB, todoB, pairs>>
    /\ OnlyOrder

InsertB(p) ==
    /\ p \in todoB
    /\ rtB' = setitem(rtB, p[1], p[2])
    /\ todoB' = todoB \ {p}
    /\ UNCHANGED <<rtA, todoA, pairs>>
    /\ OnlyOrder

OrderNext ==
    \/ \E p \in Nets \X Values : InsertA(p)
    \/ \E p \in Nets \X Values : InsertB(p)

OrderIdle ==
    /\ rtA = EmptyTable /\ rtB = EmptyTable
    /\ todoA = {} /\ todoB = {} /\ pairs = {}


(***************************************************************************)
(* RIB (server.py): tables partitioned by (AFI, SAFI)                      *)
(***************************************************************************)
AFI_IPV4 == 1
AFI_IPV6 == 2
SAFI_UNICAST == 1
Protos == {<<AFI_IPV4, SAFI_UNICAST>>, <<AFI_IPV6, SAFI_UNICAST>>}

\* message.IPNLRI wraps a network; message.NLRI is the generic NLRI
IPNLRI(net) == [kind |-> "IPNLRI", len |-> net.len, bits |-> net.bits]
NLRI(l, b) == [kind |-> "NLRI", len |-> l, bits |-> b]
isIPNLRI(nlri) == nlri.kind = "IPNLRI"

Route(afi, safi, nlri, attributes) ==
    [afi |-> afi, safi |-> safi, nlri |-> nlri, attributes |-> attributes]
proto(route) == <<route.afi, route.safi>>
RIBKey(route) == <<route.afi, route.safi, route.nlri>>

\* the routes handed to the RIB: two prefixes, one a subnet of the other,
\* two attribute sets, and a route whose NLRI is no IP NLRI
RouteNLRIs == {IPNLRI(Net(1, 0)), IPNLRI(Net(2, 1)), NLRI(1, 0)}
AttrSets == {{"ORIGIN"}, {"ORIGIN", "MED"}}
Routes == {Route(p[1], p[2], n, a) : p \in Protos, n \in RouteNLRIs, a \in AttrSets}

\* RoutingTable._coerce_net calls net.ipv6() (net.ipv4()) on its argument:
\* netaddr networks and addresses have it, an NLRI object has not
coerce_net(net) ==
    IF net.kind \in {"net", "addr"} THEN [exc |-> "none", net |-> net]
    ELSE [exc |-> "AttributeError"]

\* RoutingTable.__setitem__ / __getitem__ / __delitem__ on any key object
rt_setitem(root, key, val) ==
    IF coerce_net(key).exc # "none"
    THEN [exc |-> coerce_net(key).exc, root |-> root]
    ELSE [exc |-> "none", root |-> setitem(root, coerce_net(key).net, val)]

rt_getitem(root, key) ==
    IF coerce_net(key).exc # "none" THEN [exc |-> coerce_net(key).exc]
    ELSE IF getitem(root, coerce_net(key).net).ok
    THEN [exc |-> "none", val |-> getitem(root, coerce_net(key).net).data]
    ELSE [exc |-> "KeyError"]

rt_delitem(root, key) ==
    IF coerce_net(key).exc # "none"
    THEN [exc |-> coerce_net(key).exc, root |-> root]
    ELSE IF remove(root, coerce_net(key).net).ok
    THEN [exc |-> "none", root |-> remove(root, coerce_net(key).net).root]
    ELSE [exc |-> "KeyError", root |-> root]

\* a RIB is its _protos and its _rts; the two are kept alike
EmptyRIB == [protos |-> {}, rts |-> [p \in {} |-> EmptyTable]]

register_proto(r, p) ==
    IF p \in r.protos THEN r
    ELSE [protos |-> r.protos \cup {p},
          rts |-> [q \in DOMAIN r.rts \cup {p} |->
                      IF q = p THEN EmptyTable ELSE r.rts[q]]]

unregister_proto(r, p) ==
    IF p \notin r.protos THEN r
    ELSE [protos |-> r.protos \ {p},
          rts |-> [q \in DOMAIN r.rts \ {p} |-> r.rts[q]]]

\* Python's == between an NLRI (or a network) and an (afi, safi) tuple
nlri_eq_proto(nlri, p) == FALSE

\* RIB.__contains__: looks key[2] up among the keys of _rts
rib_contains(r, key) ==
    IF <<key[1], key[2]>> \notin DOMAIN r.rts THEN FALSE
    ELSE \E p \in DOMAIN r.rts : nlri_eq_proto(key[3], p)

\* RIB.__setitem__ / __getitem__ / __delitem__: [exc, rib] or [exc, val]
rib_setitem(r, key, val) ==
    LET p == <<key[1], key[2]>> IN
    IF p \notin DOMAIN r.rts THEN [exc |-> "KeyError", rib |-> r]
    ELSE [exc |-> rt_setitem(r.rts[p], key[3], val).exc,
          rib |-> [r EXCEPT !.rts[p] = rt_setitem(r.rts[p], key[3], val).root]]

rib_getitem(r, key) ==
    LET p == <<key[1], key[2]>> IN
    IF p \notin DOMAIN r.rts THEN [exc |-> "KeyError"]
    ELSE rt_getitem(r.rts[p], key[3])

rib_delitem(r, key) ==
    LET p == <<key[1], key[2]>> IN
    IF p \notin DOMAIN r.rts THEN [exc |-> "KeyError", rib |-> r]
    ELSE [exc |-> rt_delitem(r.rts[p], key[3]).exc,
          rib |-> [r EXCEPT !.rts[p] = rt_delitem(r.rts[p], key[3]).root]]

\* _Node.__iter__: the node, then the iteration of each child, the children
\* in the order in which the set yields them
RECURSIVE node_iter_list(_)
RECURSIVE children_iter_list(_)
node_iter_list(node) == <<node>> \o children_iter_list(node.children)
children_iter_list(children) ==
    IF children = {} THEN <<>>
    ELSE LET child == CHOOSE c \in children : TRUE
         IN  node_iter_list(child) \o children_iter_list(children \ {child})
\* the nets of the data nodes of a list of nodes
RECURSIVE data_nets(_)
data_nets(nodes) ==
    IF nodes = <<>> THEN <<>>
    ELSE (IF isDataNode(Head(nodes)) THEN <<Head(nodes).net>> ELSE <<>>)
             \o data_nets(Tail(nodes))
\* RoutingTable.__iter__: the nets it yields, in order
rt_iter(root) ==
    (IF isDataNode(root) THEN <<root.net>> ELSE <<>>)
        \o data_nets(node_iter_list(root))

\* RoutingTable.__len__ counts what __iter__ yields: the net of a data root,
\* then every data node of the iteration of the root, which begins with the
\* root itself
rt_len(root) ==
    Cardinality({n \in node_iter(root) : isDataNode(n)})
        + (IF isDataNode(root) THEN 1 ELSE 0)
RECURSIVE SumLen(_, _)
SumLen(r, ps) ==
    IF ps = {} THEN 0
    ELSE LET p == CHOOSE q \in ps : TRUE
         IN  rt_len(r.rts[p]) + SumLen(r, ps \ {p})
\* RIB.__len__
rib_len(r) == SumLen(r, DOMAIN r.rts)

\* an add that does not look at the registered protocols
rib_add_unchecked(r, route) ==
    IF ~isIPNLRI(route.nlri) THEN [exc |-> "ValueError", rib |-> r]
    ELSE rib_setitem(r, RIBKey(route), route)

rib_add(r, route) ==
    IF proto(route) \notin r.protos THEN [exc |-> "ValueError", rib |-> r]
    ELSE IF ~isIPNLRI(route.nlri) THEN [exc |-> "ValueError", rib |-> r]
    ELSE rib_setitem(r, RIBKey(route), route)

rib_add_value(r, route, value) ==
    IF proto(route) \notin r.protos THEN [exc |-> "ValueError", rib |-> r]
    ELSE IF ~isIPNLRI(route.nlri) THEN [exc |-> "ValueError", rib |-> r]
    ELSE rib_setitem(r, RIBKey(route), value)

\* a Python set stored as a value
PySet(S) == [set |-> S]

rib_add_set(r, route) ==
    IF proto(route) \notin r.protos THEN [exc |-> "ValueError", rib |-> r]
    ELSE IF ~isIPNLRI(route.nlri) THEN [exc |-> "ValueError", rib |-> r]
    ELSE LET created == IF rib_contains(r, RIBKey(route))
                        THEN [exc |-> "none", rib |-> r]
                        ELSE rib_setitem(r, RIBKey(route), PySet({}))
             got == rib_getitem(created.rib, RIBKey(route))
         IN  IF created.exc # "none" THEN created
             ELSE IF got.exc # "none" THEN [exc |-> got.exc, rib |-> created.rib]
             ELSE rib_setitem(created.rib, RIBKey(route),
                              PySet(got.val.set \cup {route}))

rib_remove(r, route) ==
    IF ~rib_contains(r, RIBKey(route)) THEN [exc |-> "none", rib |-> r]
    ELSE rib_delitem(r, RIBKey(route))

rib_remove_set(r, route) ==
    IF ~rib_contains(r, RIBKey(route)) THEN [exc |-> "none", rib |-> r]
    ELSE LET got == rib_getitem(r, RIBKey(route)) IN
         IF got.exc # "none" THEN [exc |-> got.exc, rib |-> r]
         ELSE IF route \notin got.val.set THEN [exc |-> "KeyError", rib |-> r]
         ELSE rib_setitem(r, RIBKey(route), PySet(got.val.set \ {route}))

\* the values handed to add_value
RibValues == {"best"}

Logged(entry) ==
    IF Len(ribLog) < MaxLog THEN Append(ribLog, entry)
    ELSE Append(Tail(ribLog), entry)

RIBInit ==
    /\ rib = EmptyRIB
    /\ ribLog = <<>>

RegisterProto(p) ==
    /\ rib' = register_proto(rib, p)
    /\ ribLog' = Logged([op |-> "register_proto", proto |-> p])
    /\ OnlyRIB

UnregisterProto(p) ==
    /\ rib' = unregister_proto(rib, p)
    /\ ribLog' = Logged([op |-> "unregister_proto", proto |-> p])
    /\ OnlyRIB

RibAdd(route) ==
    /\ rib' = rib_add(rib, route).rib
    /\ ribLog' = Logged([op |-> "add", route |-> route,
                         exc |-> rib_add(rib, route).exc,
                         len |-> rib_len(rib)])
    /\ OnlyRIB

RibAddValue(route, value) ==
    /\ rib' = rib_add_value(rib, route, value).rib
    /\ ribLog' = Logged([op |-> "add_value", route |-> route,
                         exc |-> rib_add_value(rib, route, value).exc])
    /\ OnlyRIB

RibAddSet(route) ==
    /\ rib' = rib_add_set(rib, route).rib
    /\ ribLog' = Logged([op |-> "add_set", route |-> route,
                         exc |-> rib_add_set(rib, route).exc])
    /\ OnlyRIB

RibRemove(route) ==
    /\ rib' = rib_remove(rib, route).rib
    /\ ribLog' = Logged([op |-> "remove", route |-> route,
                         exc |-> rib_remove(rib, route).exc])
    /\ OnlyRIB

RibRemoveSet(route) ==
    /\ rib' = rib_remove_set(rib, route).rib
    /\ ribLog' = Logged([op |-> "remove_set", route |-> route,
                         exc |-> rib_remove_set(rib, route).exc])
    /\ OnlyRIB

RIBNext ==
    \/ \E p \in Protos : RegisterProto(p)
    \/ \E p \in Protos : UnregisterProto(p)
    \/ \E route \in Routes : RibAdd(route)
    \/ \E route \in Routes, value \in RibValues : RibAddValue(route, value)
    \/ \E route \in Routes : RibAddSet(route)
    \/ \E route \in Routes : RibRemove(route)
    \/ \E route \in Routes : RibRemoveSet(route)

RIBIdle == rib = EmptyRIB /\ ribLog = <<>>

\* RIB.__init__
RIB(protos) == [protos |-> protos, rts |-> [p \in protos |-> EmptyTable]]
\* a RIB constructed with any set of protocols, under its add operations
RIBAddInit ==
    /\ \E protos \in SUBSET Protos : rib = RIB(protos)
    /\ ribLog = <<>>
\* one route for every (afi, safi) and NLRI
AddedRoutes == {route \in Routes : route.attributes = {"ORIGIN"}}
RIBAddNext ==
    \/ \E route \in AddedRoutes : RibAdd(route)
    \/ \E route \in AddedRoutes, value \in RibValues :
          RibAddValue(route, value)
    \/ \E route \in AddedRoutes : RibAddSet(route)

(***************************************************************************)
(* Sessions of the server (server.py): timers, the session loop of one     *)
(* connection (BGPServer.run_session) and collision resolution.            *)
(*                                                                         *)
(* One peer is configured; it connects, or is connected to, at most        *)
(* MaxSessions times, and every connection is a session object of its own. *)
(* A step of a session runs from one suspension point of its coroutine to  *)
(* the next; the lock sessions_lock is never contended and does not        *)
(* suspend.  None is written 0 for peer_as and peer_router_id.             *)
(***************************************************************************)
\* connections of the peer in one run
MaxSessions == 2
\* router ids are 1..MaxRouterId, AS numbers 1..MaxAsn
MaxRouterId == 3
MaxAsn == 1

Slots == 1..MaxSessions
RouterIds == 1..MaxRouterId
Asns == 1..MaxAsn
\* the local side's identity (BaseSession.local_router_id, local_as)
local_router_id == 2
local_as == 1
\* configured hold and keepalive times; 0 switches a timer off
HoldTimes == {0, 3}
KeepaliveTimes == {0, 1}

OpenMessage(asn, router_id) ==
    [type |-> "OPEN", asn |-> asn, router_id |-> router_id]
KeepaliveMessage == [type |-> "KEEPALIVE"]
UpdateMessage == [type |-> "UPDATE"]
RouteRefreshMessage == [type |-> "ROUTE_REFRESH"]
NotificationMessage(error_code, error_subcode) ==
    [type |-> "NOTIFICATION", error_code |-> error_code,
     error_subcode |-> error_subcode]
\* the peer closes the connection: read_message raises IncompleteReadError
EOF == [type |-> "EOF"]
NoMsg == [type |-> "none"]

\* what the peer may send once its OPEN has been read, and what it may
\* send first
LaterInputs ==
    {OpenMessage(1, 1), KeepaliveMessage, UpdateMessage,
     RouteRefreshMessage, NotificationMessage(6, 0), EOF}
Inputs ==
    {OpenMessage(a, r) : a \in Asns, r \in RouterIds} \cup LaterInputs

(***************************************************************************)
(* Capabilities (message.py) and their negotiation (session.py)            *)
(***************************************************************************)
AS_TRANS == 23456
SAFI_MULTICAST == 2

FourOctetASNCapability(asn) == [cap |-> "FourOctetASN", asn |-> asn]
MultiprotocolCapability(afi, safi) ==
    [cap |-> "Multiprotocol", afi |-> afi, safi |-> safi]
\* protos: set of <<afi, safi, send_receive>>
AddPathCapability(protos) == [cap |-> "AddPath", protos |-> protos]
NoCap == [cap |-> "none"]
\* AddPathCapability.__and__
add_path_and(self, other) ==
    AddPathCapability(self.protos \cap other.protos)

\* an OPEN with capability parameters; OpenMessage(asn, router_id) is the
\* OPEN without parameters
OpenMessageWith(asn, router_id, caps) ==
    [type |-> "OPEN", asn |-> asn, router_id |-> router_id,
     capabilities |-> caps]
\* OpenMessage.capabilities
capabilities(msg) ==
    IF "capabilities" \in DOMAIN msg THEN msg.capabilities ELSE {}

\* keys of MessageDecoder.path_attribute_types: `t.type_` of a class is an
\* int for a class attribute and the property object itself for a property
IntKey(n) == [int |-> n]
PropertyKey == [property |-> "type_"]
class_type_(t) ==
    CASE t = "ASPathAttribute" -> IntKey(2)
      [] t = "AS4PathAttribute" -> IntKey(2)
      [] t = "AggregatorAttribute" -> IntKey(7)
      [] t = "Aggregator4Attribute" -> PropertyKey
IP_protos ==
    {<<AFI_IPV4, SAFI_UNICAST>>, <<AFI_IPV6, SAFI_UNICAST>>,
     <<AFI_IPV4, SAFI_MULTICAST>>, <<AFI_IPV6, SAFI_MULTICAST>>}
\* the entries of default_decoder that capabilities can rebind: types 2, 7,
\* 17, 18 of path_attribute_types, and nlri_types
default_decoder ==
    [path_attribute_types |->
        {<<IntKey(2), "ASPathAttribute">>, <<IntKey(7), "AggregatorAttribute">>,
         <<IntKey(17), "AS4PathAttribute">>,
         <<IntKey(18), "Aggregator4Attribute">>},
     nlri_types |-> [p \in IP_protos |-> "IPNLRI"]]
register_path_attribute_type(decoder, t) ==
    [decoder EXCEPT !.path_attribute_types =
        {e \in @ : e[1] # class_type_(t)} \cup {<<class_type_(t), t>>}]
\* the class that decodes path attributes of type code n
path_attribute_type(decoder, n) ==
    (CHOOSE e \in decoder.path_attribute_types : e[1] = IntKey(n))[2]
\* x & 1
Odd(x) == x % 2 = 1
\* one pass of the loop of MessageDecoder.for_capabilities
for_capability(decoder, c) ==
    IF c.cap = "FourOctetASN"
    THEN register_path_attribute_type(
             register_path_attribute_type(decoder, "AS4PathAttribute"),
             "Aggregator4Attribute")
    ELSE IF c.cap = "AddPath"
    THEN [decoder EXCEPT !.nlri_types =
            [p \in DOMAIN @ |->
                IF \E t \in c.protos : <<t[1], t[2]>> = p /\ Odd(t[3])
                THEN "AddPathIPNLRI" ELSE @[p]]]
    ELSE decoder
RECURSIVE for_capabilities(_, _)
for_capabilities(caps, base_decoder) ==
    IF caps = {} THEN base_decoder
    ELSE LET c == CHOOSE x \in caps : TRUE
         IN for_capabilities(caps \ {c}, for_capability(base_decoder, c))

\* Session: the properties of a session `self`, a record with the fields
\* local_as, local_capabilities, peer_as, peer_router_id, peer_capabilities
\* and decoder; None is 0
local_supports_asn4(self) ==
    \E c \in self.local_capabilities : c.cap = "FourOctetASN"
peer_supports_asn4(self) ==
    \E c \in self.peer_capabilities : c.cap = "FourOctetASN"
supports_asn4(self) ==
    IF self.peer_as = 0 THEN local_supports_asn4(self)
    ELSE peer_supports_asn4(self) /\ local_supports_asn4(self)
peer_add_path_cap(self) ==
    IF \E c \in self.peer_capabilities : c.cap = "AddPath"
    THEN CHOOSE c \in self.peer_capabilities : c.cap = "AddPath"
    ELSE NoCap
local_add_path_cap(self) ==
    IF \E c \in self.local_capabilities : c.cap = "AddPath"
    THEN CHOOSE c \in self.local_capabilities : c.cap = "AddPath"
    ELSE NoCap
supports_add_path(self) ==
    peer_add_path_cap(self) # NoCap /\ local_add_path_cap(self) # NoCap
common_capabilities(self) ==
    (self.local_capabilities \cap self.peer_capabilities)
    \cup (IF supports_asn4(self) /\ self.local_as # 0
          THEN {FourOctetASNCapability(self.peer_as)} ELSE {})
    \cup (IF supports_add_path(self)
          THEN {add_path_and(peer_add_path_cap(self),
                             local_add_path_cap(self))}
          ELSE {})
local_protocols(self) ==
    {<<c.afi, c.safi>> :
        c \in {x \in self.local_capabilities : x.cap = "Multiprotocol"}}
peer_protocols(self) ==
    {<<c.afi, c.safi>> :
        c \in {x \in self.local_capabilities : x.cap = "Multiprotocol"}}
common_protocols(self) == local_protocols(self) \cap peer_protocols(self)
\* Session.load_peer_data: the peer data of the OPEN (287-289), the ASN of
\* the peer's FourOctetASNCapability (290-293), the decoder (294-296)
load_asn4(self) ==
    IF supports_asn4(self)
    THEN [self EXCEPT !.peer_as =
            (CHOOSE c \in self.peer_capabilities :
                 c.cap = "FourOctetASN").asn]
    ELSE self
load_decoder(self) ==
    [self EXCEPT !.decoder =
        for_capabilities(common_capabilities(self), self.decoder)]
Session_load_peer_data(self, msg) ==
    load_decoder(load_asn4(
        [self EXCEPT !.peer_capabilities = capabilities(msg),
                     !.peer_router_id = msg.router_id,
                     !.peer_as = msg.asn]))
\* Session(local_as = ..., local_capabilities = ...)
Session(las, lcaps) ==
    [local_as |-> las, local_capabilities |-> lcaps, peer_as |-> 0,
     peer_router_id |-> 0, peer_capabilities |-> {},
     decoder |-> default_decoder]

\* the inputs of the negotiation: the local AS (0 is None), the local
\* capabilities and the OPEN of the peer, each with at most one AddPath
\* capability
LocalAsns == {0, local_as}
PeerAsns2 == {AS_TRANS, 100}
PeerAsns4 == {65537}
AtMostOneAddPath(caps) ==
    \A c, d \in caps : c.cap = "AddPath" /\ d.cap = "AddPath" => c = d
LocalCapabilitySets ==
    {caps \in SUBSET
        {FourOctetASNCapability(local_as),
         MultiprotocolCapability(AFI_IPV4, SAFI_UNICAST),
         MultiprotocolCapability(AFI_IPV6, SAFI_UNICAST),
         AddPathCapability({<<AFI_IPV4, SAFI_UNICAST, 3>>,
                            <<AFI_IPV6, SAFI_UNICAST, 1>>}),
         AddPathCapability({<<AFI_IPV4, SAFI_UNICAST, 1>>})} :
        AtMostOneAddPath(caps)}
PeerCapabilitySets ==
    {caps \in SUBSET
        ({FourOctetASNCapability(a) : a \in PeerAsns4} \cup
         {MultiprotocolCapability(AFI_IPV4, SAFI_UNICAST),
          AddPathCapability({<<AFI_IPV4, SAFI_UNICAST, 1>>}),
          AddPathCapability({<<AFI_IPV4, SAFI_UNICAST, 3>>,
                             <<AFI_IPV6, SAFI_MULTICAST, 2>>})}) :
        AtMostOneAddPath(caps)}
OpenMessages ==
    {OpenMessageWith(a, r, caps) :
        a \in PeerAsns2, r \in {1}, caps \in PeerCapabilitySets}

CapsInit ==
    /\ capS \in {Session(las, lcaps) :
                    las \in LocalAsns, lcaps \in LocalCapabilitySets}
    /\ capM = NoMsg
    /\ made = NoMsg
\* the session loads the OPEN of the peer
LoadPeerData(msg) ==
    /\ capM = NoMsg
    /\ capS' = Session_load_peer_data(capS, msg)
    /\ capM' = msg
    /\ UNCHANGED made
    /\ OnlyCaps
CapsNext == \E msg \in OpenMessages : LoadPeerData(msg)
\* the session of an active peer is run again on every reconnect
\* (connect_retry_callback, BGPServer.connect): run_session calls
\* load_peer_data of the same object with the OPEN of the new connection
ReloadPeerData(msg) ==
    /\ capS' = Session_load_peer_data(capS, msg)
    /\ capM' = msg
    /\ UNCHANGED made
    /\ OnlyCaps
ReloadNext == \E msg \in OpenMessages : ReloadPeerData(msg)
CapsIdle ==
    /\ capS = Session(0, {})
    /\ capM = NoMsg
    /\ made = NoMsg

\* Capability.as_param
CapabilityParameter(caps) == [type_ |-> 2, capabilities |-> caps]
as_param(capability) == CapabilityParameter(<<capability>>)
\* OpenMessage(): version 4, asn 23456, hold_time 0, bgp_identifier 0, no
\* parameters.  The parameters are a set here: make_open_message appends
\* them in the order in which the set local_capabilities is iterated
DefaultOpenMessage ==
    [type |-> "OPEN", version |-> 4, asn |-> 23456, hold_time |-> 0,
     bgp_identifier |-> 0, parameters |-> {}]
\* OpenMessage.capabilities of such a message
open_capabilities(msg) ==
    UNION {{p.capabilities[i] : i \in DOMAIN p.capabilities} :
              p \in {q \in msg.parameters : q.type_ = 2}}

\* a make_open_message that puts local_as into the header whenever it is set
Session_make_open_message_as2(self) ==
    [DefaultOpenMessage EXCEPT
        !.bgp_identifier = self.local_router_id,
        !.asn = IF self.local_as # 0 THEN self.local_as ELSE AS_TRANS,
        !.hold_time = self.hold_time,
        !.parameters = {as_param(c) : c \in self.local_capabilities}]
\* Session.make_open_message of a session with hold_time and
\* local_router_id
Session_make_open_message(self) ==
    [DefaultOpenMessage EXCEPT
        !.bgp_identifier = self.local_router_id,
        !.asn = IF ~supports_asn4(self) /\ self.local_as # 0
                THEN self.local_as ELSE AS_TRANS,
        !.hold_time = self.hold_time,
        !.parameters = {as_param(c) : c \in self.local_capabilities}]

\* the sessions that make an OPEN: local_as and peer_as are set or None (0),
\* the FourOctetASNCapability configured is that of local_as or of another
\* AS number
OpenLocalAsns == {0, local_as, 65537}
OpenPeerAsns == {0, 100}
OpenCapabilitySets ==
    SUBSET {FourOctetASNCapability(local_as), FourOctetASNCapability(65537),
            MultiprotocolCapability(AFI_IPV4, SAFI_UNICAST)}
OpenSession(las, lcaps, pas, hold_time, router_id) ==
    [local_as |-> las, local_capabilities |-> lcaps, peer_as |-> pas,
     peer_router_id |-> 0, peer_capabilities |-> {},
     decoder |-> default_decoder, hold_time |-> hold_time,
     local_router_id |-> router_id]
\* the OPENs of the peer that such a session loads
OpenPeerMessages ==
    {OpenMessageWith(100, 1, caps) :
        caps \in {{}, {FourOctetASNCapability(65537)}}}
OpenInit ==
    /\ capS \in {OpenSession(las, lcaps, pas, h, local_router_id) :
                    las \in OpenLocalAsns, lcaps \in OpenCapabilitySets,
                    pas \in OpenPeerAsns, h \in HoldTimes}
    /\ capM = NoMsg
    /\ made = NoMsg
\* the session makes its OPEN, before or after it has loaded the peer's
MakeOpen ==
    /\ made = NoMsg
    /\ made' = Session_make_open_message(capS)
    /\ UNCHANGED <<capS, capM>>
    /\ OnlyCaps
OpenNext ==
    \/ \E msg \in OpenPeerMessages : LoadPeerData(msg)
    \/ MakeOpen

(***************************************************************************)
(* Routes of an UPDATE and the RIBs of a RoutingSession (server.py)        *)
(***************************************************************************)
\* RIB.register_protos, RIB.clear and Mapping.values over RIB.__iter__
RECURSIVE register_protos(_, _)
register_protos(r, protos) ==
    IF protos = {} THEN r
    ELSE LET p == CHOOSE x \in protos : TRUE
         IN register_protos(register_proto(r, p), protos \ {p})
rt_clear(root) == Node(root.net)
rib_clear(r) == [r EXCEPT !.rts = [p \in DOMAIN @ |-> rt_clear(@[p])]]
rib_values(r) == UNION {{e[2] : e \in Stored(r.rts[p])} : p \in r.protos}

\* path attributes; nlri is the sequence of NLRIs of a multiprotocol one
OriginAttribute == [type |-> "ORIGIN"]
MultiprotocolReachableNLRI(afi, safi, nlri) ==
    [type |-> "MP_REACH_NLRI", afi |-> afi, safi |-> safi, nlri |-> nlri]
MultiprotocolUnreachableNLRI(afi, safi, nlri) ==
    [type |-> "MP_UNREACH_NLRI", afi |-> afi, safi |-> safi, nlri |-> nlri]
\* UpdateMessage(withdrawn, path_attributes, nlri), each a sequence
Update(withdrawn, path_attributes, nlri) ==
    [type |-> "UPDATE", withdrawn |-> withdrawn,
     path_attributes |-> path_attributes, nlri |-> nlri]

Range(seq) == {seq[i] : i \in 1..Len(seq)}
RECURSIVE Flatten(_)
Flatten(seqs) ==
    IF seqs = <<>> THEN <<>> ELSE Head(seqs) \o Flatten(Tail(seqs))
isMPReach(a) == a.type = "MP_REACH_NLRI"
isMPUnreach(a) == a.type = "MP_UNREACH_NLRI"
\* Route.from_update: what the generator yields, in order.  The last loop
\* reads the variable mpreach of the loop before it: the last MP_REACH of
\* the UPDATE, and unbound (UnboundLocalError) when there is none
from_update(update) ==
    LET attrs == {a \in Range(update.path_attributes) :
                     ~isMPReach(a) /\ ~isMPUnreach(a)}
        mpreachs == SelectSeq(update.path_attributes, isMPReach)
        mpunreachs == SelectSeq(update.path_attributes, isMPUnreach)
        mpreach == mpreachs[Len(mpreachs)]
    IN  [i \in 1..Len(update.nlri) |->
            [action |-> "ANNOUNCE",
             route |-> Route(AFI_IPV4, SAFI_UNICAST, update.nlri[i], attrs)]]
        \o [i \in 1..Len(update.withdrawn) |->
            [action |-> "WITHDRAW",
             route |-> Route(AFI_IPV4, SAFI_UNICAST, update.withdrawn[i],
                             attrs)]]
        \o Flatten([k \in 1..Len(mpreachs) |->
            [i \in 1..Len(mpreachs[k].nlri) |->
                [action |-> "ANNOUNCE",
                 route |-> Route(mpreachs[k].afi, mpreachs[k].safi,
                                 mpreachs[k].nlri[i],
                                 attrs \cup {mpreachs[k]})]]])
        \o Flatten([k \in 1..Len(mpunreachs) |->
            [i \in 1..Len(mpunreachs[k].nlri) |->
                IF mpreachs = <<>>
                THEN [action |-> "raise", exc |-> "UnboundLocalError"]
                ELSE [action |-> "WITHDRAW",
                      route |-> Route(mpreach.afi, mpreach.safi,
                                      mpunreachs[k].nlri[i],
                                      attrs \cup {mpunreachs[k]})]]])

\* BaseSession.peer_id
peer_id(sn) == <<sn.peer_as, sn.peer_router_id>>
\* route.source_router = self.peer_id
with_source_router(route, id) ==
    [afi |-> route.afi, safi |-> route.safi, nlri |-> route.nlri,
     attributes |-> route.attributes, source_router |-> id]
isRoutingSession(sn) == "adj_rib_in" \in DOMAIN sn
\* accept_all_filter and reject_all_filter
filter_in(sn, route) == sn.filter_in = "accept_all_filter"

\* the second loop of on_update, from routes[i] on: [exc, rib]
RECURSIVE adj_rib_in_apply(_, _, _)
adj_rib_in_apply(r, routes, i) ==
    IF i > Len(routes) THEN [exc |-> "none", rib |-> r]
    ELSE LET res == IF routes[i].action = "ANNOUNCE"
                    THEN rib_add(r, routes[i].route)
                    ELSE rib_remove(r, routes[i].route)
         IN  IF res.exc # "none" THEN res
             ELSE adj_rib_in_apply(res.rib, routes, i + 1)
\* the third loop of on_update, from routes[i] on: [exc, rib]
RECURSIVE loc_rib_apply(_, _, _, _)
loc_rib_apply(r, sn, routes, i) ==
    IF i > Len(routes) THEN [exc |-> "none", rib |-> r]
    ELSE LET res == IF routes[i].action = "ANNOUNCE"
                    THEN IF filter_in(sn, routes[i].route)
                         THEN rib_add_set(r, routes[i].route)
                         ELSE [exc |-> "none", rib |-> r]
                    ELSE rib_remove_set(r, routes[i].route)
         IN  IF res.exc # "none" THEN res
             ELSE loc_rib_apply(res.rib, sn, routes, i + 1)

\* RoutingSession.on_update: how it ends (exc), the session and the
\* Loc-RIB afterwards
\* on_update as it would be with a RIB.add and a RIB.add_set that store
\* the announced route under the network of its NLRI
RECURSIVE rib_store(_, _, _)
rib_store(r, routes, as_set) ==
    IF routes = {} THEN r
    ELSE LET route == CHOOSE x \in routes : TRUE
             net == Net(route.nlri.len, route.nlri.bits)
             val == IF as_set THEN PySet({route}) ELSE route
         IN  rib_store(IF proto(route) \in r.protos
                       THEN [r EXCEPT !.rts[proto(route)] =
                               setitem(@, net, val)]
                       ELSE r,
                       routes \ {route}, as_set)
on_update_stores(self, loc, update) ==
    LET announced ==
            {with_source_router(x.route, peer_id(self)) :
                x \in {y \in Range(from_update(update)) :
                          y.action = "ANNOUNCE"}}
    IN  [exc |-> "none",
         sn |-> [self EXCEPT !.adj_rib_in = rib_store(@, announced, FALSE)],
         loc_rib |-> rib_store(loc, {r \in announced : filter_in(self, r)},
                               TRUE)]

\* the session after it ran a loop that calls add_set or remove_set of the
\* Loc-RIB with the locks `locks` held; a session that has the field
\* loc_rib_held keeps the locks of every such loop in it
loc_rib_loop(self, locks) ==
    IF "loc_rib_held" \in DOMAIN self
    THEN [self EXCEPT !.loc_rib_held = @ \cup {locks}]
    ELSE self
\* after the second loop ended as adj: the merge into the Loc-RIB (756-763),
\* inside `async with self.server.loc_rib_lock`
on_update_merge(self, loc, routes, adj) ==
    IF adj.exc # "none"
    THEN [exc |-> adj.exc, sn |-> [self EXCEPT !.adj_rib_in = adj.rib],
          loc_rib |-> loc]
    ELSE [sn |-> loc_rib_loop([self EXCEPT !.adj_rib_in = adj.rib],
                              {"loc_rib_lock"})]
         @@ (LET lc == loc_rib_apply(loc, self, routes, 1)
             IN  [exc |-> lc.exc, loc_rib |-> lc.rib])
\* on_update as it would be without the test of route.proto in its first
\* loop
on_update_unchecked(self, loc, items) ==
    LET bad == {i \in 1..Len(items) : items[i].action = "raise"}
        good == SubSeq(items, 1, IF bad = {} THEN Len(items)
                                 ELSE Min(bad) - 1)
        routes == [i \in 1..Len(good) |->
                     [action |-> good[i].action,
                      route |-> with_source_router(good[i].route,
                                                   peer_id(self))]]
    IN  IF bad # {}
        THEN [exc |-> items[Min(bad)].exc, sn |-> self, loc_rib |-> loc]
        ELSE on_update_merge(self, loc, routes,
                             adj_rib_in_apply(self.adj_rib_in, routes, 1))
\* the first loop over what from_update yields (739-748), then the others
on_update_routes(self, loc, items) ==
    LET bad == {i \in 1..Len(items) :
                   \/ items[i].action = "raise"
                   \/ proto(items[i].route) \notin common_protocols(self)}
        routes == [i \in 1..Len(items) |->
                     [action |-> items[i].action,
                      route |-> with_source_router(items[i].route,
                                                   peer_id(self))]]
    IN  IF bad # {}
        THEN IF items[Min(bad)].action = "raise"
             THEN [exc |-> items[Min(bad)].exc,
                   sn |-> self, loc_rib |-> loc]
             ELSE [exc |-> "NotificationException",
                   notification |-> NotificationMessage(3, 9),
                   sn |-> self, loc_rib |-> loc]
        ELSE on_update_merge(self, loc, routes,
                             adj_rib_in_apply(self.adj_rib_in, routes, 1))
on_update(self, loc, update) ==
    on_update_routes(self, loc, from_update(update))

\* the loop of on_shutdown over the values of the Adj-RIB-In: [exc, rib]
RECURSIVE loc_rib_withdraw(_, _)
loc_rib_withdraw(r, routes) ==
    IF routes = {} THEN [exc |-> "none", rib |-> r]
    ELSE LET route == CHOOSE x \in routes : TRUE
             res == rib_remove_set(r, route)
         IN  IF res.exc # "none" THEN res
             ELSE loc_rib_withdraw(res.rib, routes \ {route})
\* RoutingSession.on_shutdown; run_session ignores its exceptions.  The
\* loop runs inside `async with self.adj_rib_in_lock` (776-778)
on_shutdown_clear(self, res) ==
    IF res.exc # "none" THEN [sn |-> self, loc_rib |-> res.rib]
    ELSE [sn |-> [self EXCEPT !.adj_rib_in = rib_clear(@)],
          loc_rib |-> res.rib]
on_shutdown(self, loc) ==
    on_shutdown_clear(loc_rib_loop(self, {"adj_rib_in_lock"}),
                      loc_rib_withdraw(loc, rib_values(self.adj_rib_in)))

\* Timer: _task is "none" (None), "pending" (sleeping) or "done"
Timer(delta) == [delta |-> delta, task |-> "none"]
started(timer) == timer.task # "none" \/ timer.delta = 0
\* start and stop give the timer afterwards and whether the bare `raise`
\* was reached
start(timer) ==
    IF timer.delta = 0 THEN [raised |-> FALSE, timer |-> timer]
    ELSE IF started(timer) THEN [raised |-> TRUE, timer |-> timer]
    ELSE [raised |-> FALSE, timer |-> [timer EXCEPT !.task = "pending"]]
stop(timer) ==
    IF timer.delta = 0 THEN [raised |-> FALSE, timer |-> timer]
    ELSE IF ~started(timer) THEN [raised |-> TRUE, timer |-> timer]
    ELSE [raised |-> FALSE, timer |-> [timer EXCEPT !.task = "none"]]
\* a bare `raise` re-raises the exception being handled, and is a
\* RuntimeError when there is none
bare_raise(active) == IF active = "none" THEN "RuntimeError" ELSE active
force_start(timer) == IF ~started(timer) THEN start(timer).timer ELSE timer
force_stop(timer) == IF started(timer) THEN stop(timer).timer ELSE timer

NoColl == [found |-> FALSE]

\* ServerSession.__init__ and create_timers.  pc is the await the session
\* loop is suspended at; out is what was written to the writer; recv, coll
\* hold_expired and was_established remember the last message read, the
\* collision found, an expiry of the hold timer in ESTABLISHED and whether
\* the session reached ESTABLISHED.
ServerSession(active, hold_time, keepalive_time) ==
    [pc |-> "new", state |-> "IDLE", active |-> active,
     local_as |-> local_as, local_capabilities |-> {},
     peer_as |-> 0, peer_router_id |-> 0, peer_capabilities |-> {},
     decoder |-> default_decoder, last_error |-> NoMsg,
     was_established |-> FALSE,
     hold_timer |-> Timer(hold_time),
     keepalive_timer |-> Timer(keepalive_time),
     out |-> {}, closed |-> FALSE, cancelled |-> FALSE, exc |-> "none",
     recv |-> NoMsg, coll |-> NoColl, hold_expired |-> FALSE]

initiator_router_id(sn) ==
    IF sn.active THEN local_router_id ELSE sn.peer_router_id
\* the property reads self.local_asn or self.peer_asn; the attributes are
\* named local_as and peer_as, so reading it raises
initiator_asn(sn) == [exc |-> "AttributeError"]

make_open_message(sn) ==
    LET asn == IF ~supports_asn4(sn) /\ sn.local_as # 0
               THEN sn.local_as ELSE AS_TRANS
    IN  IF sn.local_capabilities = {}
        THEN OpenMessage(asn, local_router_id)
        ELSE OpenMessageWith(asn, local_router_id, sn.local_capabilities)
\* ServerSession.load_peer_data: Session.load_peer_data, then
\* create_timers; RoutingSession.load_peer_data registers the common
\* protocols in the Adj-RIB-In after that
create_timers(sn) ==
    [sn EXCEPT !.hold_timer = Timer(@.delta),
               !.keepalive_timer = Timer(@.delta)]
register_common_protocols(sn) ==
    IF isRoutingSession(sn)
    THEN [sn EXCEPT !.adj_rib_in = register_protos(@, common_protocols(sn))]
    ELSE sn
load_peer_data(sn, msg) ==
    register_common_protocols(create_timers(Session_load_peer_data(sn, msg)))
\* ServerSession.close
close(sn, notification) ==
    [sn EXCEPT !.out = @ \cup {notification}, !.cancelled = TRUE]

\* perform_collision_resolution of session sn against the registry reg of
\* the sessions all: what it does ("return", "close" the other session,
\* "raise" a NotificationException, or fail with "exc") and to whom.  The
\* comparisons of initiator_asn are not reached: reading it raises.
perform_collision_resolution(sn, all, reg) ==
    IF peer_id(sn) \notin DOMAIN reg
    THEN [verdict |-> "return", found |-> FALSE]
    ELSE LET o == reg[peer_id(sn)]
             other_session == all[o]
             seen == [found |-> TRUE, other |-> o,
                      other_state |-> other_session.state]
         IN  IF other_session.state = "ESTABLISHED"
             THEN [verdict |-> "raise"] @@ seen
             ELSE IF other_session.state # "OPEN_CONFIRM"
             THEN [verdict |-> "return"] @@ seen
             ELSE IF initiator_router_id(sn)
                        > initiator_router_id(other_session)
             THEN [verdict |-> "close"] @@ seen
             ELSE IF initiator_router_id(sn)
                        < initiator_router_id(other_session)
             THEN [verdict |-> "raise"] @@ seen
             ELSE [verdict |-> "exc", exc |-> initiator_asn(sn).exc] @@ seen

\* run_session is left, by return or by an exception exc, into the finally
\* of connect (which closes the writer) or of accept_handler
leave(sn, exc) ==
    [sn EXCEPT !.pc = "done", !.exc = exc, !.closed = @ \/ sn.active]

\* a finally block that sets the state and unregisters the session but
\* leaves the timers as they are
finally_idle_keeping_timers(sd, reg, exc) ==
    LET idle == [sd.sn EXCEPT !.state = "IDLE"]
    IN  [sn |-> leave([idle EXCEPT !.closed = TRUE], exc),
         sessions |-> [p \in DOMAIN reg \ {peer_id(idle)} |-> reg[p]],
         loc_rib |-> sd.loc_rib]

\* the finally block of run_session, entered with the exception exc (or
\* "none"): the session, the registry and the Loc-RIB afterwards.  In
\* ESTABLISHED on_shutdown runs first, whose exceptions are ignored;
\* ServerSession.on_shutdown does nothing
finally_idle(sd, reg, exc) ==
    LET idle == [sd.sn EXCEPT !.state = "IDLE"]
        ka == stop(idle.keepalive_timer)
        s1 == [idle EXCEPT !.keepalive_timer = ka.timer]
        hd == stop(s1.hold_timer)
        s2 == [s1 EXCEPT !.hold_timer = hd.timer]
        fin == IF ka.raised
               THEN [sn |-> leave(s1, bare_raise(exc)), sessions |-> reg]
               ELSE IF hd.raised
               THEN [sn |-> leave(s2, bare_raise(exc)), sessions |-> reg]
               ELSE IF peer_id(s2) \notin DOMAIN reg
               THEN [sn |-> leave(s2, "KeyError"), sessions |-> reg]
               ELSE [sn |-> leave([s2 EXCEPT !.closed = TRUE], exc),
                     sessions |->
                        [p \in DOMAIN reg \ {peer_id(s2)} |-> reg[p]]]
    IN  [sn |-> fin.sn, sessions |-> fin.sessions, loc_rib |-> sd.loc_rib]
finally(sn, reg, loc, exc) ==
    finally_idle(IF sn.state = "ESTABLISHED" /\ isRoutingSession(sn)
                 THEN on_shutdown(sn, loc)
                 ELSE [sn |-> sn, loc_rib |-> loc],
                 reg, exc)

\* the template session of the peer in BGPServer.peers: what accept_handler
\* reads and writes of it
Template(active, connect_retry_time) ==
    [last_error |-> NoMsg, active |-> active,
     connect_retry_timer |-> Timer(connect_retry_time)]
\* accept_handler before run_session (421) and its finally (424-427) after
\* the session sn has left run_session
accept_begin(base_session) ==
    [base_session EXCEPT !.connect_retry_timer = force_stop(@)]
accept_finally(base_session, sn) ==
    [base_session EXCEPT
        !.last_error = sn.last_error,
        !.connect_retry_timer =
            IF base_session.active THEN start(@).timer ELSE @]

\* run_session up to the first read: OPEN is written, state OPEN_SENT
open_sent(sn) ==
    [sn EXCEPT !.out = @ \cup {make_open_message(sn)},
               !.state = "OPEN_SENT", !.pc = "read_open"]

\* BGPServer.sessions, empty
NoSessions == [p \in {} |-> 0]

FSMInit ==
    /\ cfg \in [hold_time : HoldTimes, keepalive_time : KeepaliveTimes]
    /\ sess = [s \in Slots |->
                 ServerSession(FALSE, cfg.hold_time, cfg.keepalive_time)]
    /\ sessions = NoSessions
    /\ base = Template(FALSE, 0)
    /\ loc_rib = EmptyRIB

\* connections are numbered in the order they are made
Fresh(s) ==
    /\ sess[s].pc = "new"
    /\ \A t \in Slots : t < s => sess[t].pc # "new"

\* accept_handler: the peer connects; a copy of the template runs
Accept(s) ==
    /\ Fresh(s)
    /\ sess' = [sess EXCEPT ![s] = open_sent([@ EXCEPT !.active = FALSE])]
    /\ base' = accept_begin(base)
    /\ UNCHANGED <<cfg, sessions, loc_rib>>
    /\ OnlyFSM

\* connect: the server connects to the peer; there is one active session
Connect(s) ==
    /\ Fresh(s)
    /\ \A t \in Slots : ~sess[t].active
    /\ sess' = [sess EXCEPT ![s] =
                  open_sent([@ EXCEPT !.active = TRUE, !.state = "CONNECT"])]
    /\ UNCHANGED <<cfg, sessions, base, loc_rib>>
    /\ OnlyFSM

\* run_session resumes with the message read in OPEN_SENT (server.py
\* 489-534): a NOTIFICATION or another non-OPEN message ends it; after an
\* OPEN the peer data is loaded, the collision resolved, the session
\* registered and KEEPALIVE written
RecvOpenSent(s, m) ==
    /\ sess[s].pc = "read_open"
    /\ LET sn == [sess[s] EXCEPT
                    !.recv = m]
           ld == load_peer_data(sn, m)
           res == perform_collision_resolution(ld, sess, sessions)
           met == IF res.found
                  THEN [found |-> TRUE, other |-> res.other,
                        other_state |-> res.other_state,
                        dropped |-> CASE res.verdict = "raise" -> {s}
                                      [] res.verdict = "close" -> {res.other}
                                      [] OTHER -> {}]
                  ELSE NoColl
           cd == [ld EXCEPT !.coll = met]
           now == IF m.type = "EOF"
                  THEN [sess EXCEPT ![s] = leave(sn, "IncompleteReadError")]
                  ELSE IF m.type = "NOTIFICATION"
                  THEN [sess EXCEPT ![s] =
                          leave([sn EXCEPT !.last_error = m,
                                           !.closed = TRUE], "none")]
                  ELSE IF m.type # "OPEN"
                  THEN [sess EXCEPT ![s] =
                          leave([sn EXCEPT !.closed = TRUE], "none")]
                  ELSE IF res.verdict = "raise"
                  THEN [sess EXCEPT ![s] =
                          [cd EXCEPT !.out = @ \cup {NotificationMessage(6, 0)},
                                     !.pc = "wait_closed"]]
                  ELSE IF res.verdict = "exc"
                  THEN [sess EXCEPT ![s] = leave(cd, res.exc)]
                  ELSE LET on == [sess EXCEPT ![s] =
                                    [cd EXCEPT
                                       !.out = @ \cup {KeepaliveMessage},
                                       !.pc = "drain_ka"]]
                       IN  IF res.verdict = "close"
                           THEN [on EXCEPT ![res.other] =
                                   close(@, NotificationMessage(6, 0))]
                           ELSE on
           registered == m.type = "OPEN" /\ res.verdict \in {"return", "close"}
       IN  /\ sess' = now
           /\ sessions' = IF registered
                          THEN [p \in DOMAIN sessions \cup {peer_id(ld)} |->
                                  IF p = peer_id(ld) THEN s ELSE sessions[p]]
                          ELSE sessions
           /\ base' = IF now[s].pc = "done" /\ ~now[s].active
                      THEN accept_finally(base, now[s])
                      ELSE base
    /\ UNCHANGED <<cfg, loc_rib>>
    /\ OnlyFSM

\* `await writer.wait_closed()` after the NOTIFICATION of a lost collision:
\* the peer closes the connection and run_session returns
WaitClosed(s) ==
    /\ sess[s].pc = "wait_closed"
    /\ sess' = [sess EXCEPT ![s] = leave(@, "none")]
    /\ base' = IF sess[s].active THEN base
               ELSE accept_finally(base, sess[s])
    /\ UNCHANGED <<cfg, sessions, loc_rib>>
    /\ OnlyFSM

\* `await writer.drain()` of the KEEPALIVE is over: state OPEN_CONFIRM
DrainKeepalive(s) ==
    /\ sess[s].pc = "drain_ka"
    /\ sess' = [sess EXCEPT ![s] =
                  [@ EXCEPT !.state = "OPEN_CONFIRM", !.pc = "read_ka"]]
    /\ UNCHANGED <<cfg, sessions, base, loc_rib>>
    /\ OnlyFSM

\* what ending the session loop through its finally block leaves behind
EndedAs(s, fin) ==
    /\ sess' = [sess EXCEPT ![s] = fin.sn]
    /\ sessions' = fin.sessions
    /\ loc_rib' = fin.loc_rib
    /\ base' = IF fin.sn.active THEN base
               ELSE accept_finally(base, fin.sn)
Ended(s, sn, loc, exc) == EndedAs(s, finally(sn, sessions, loc, exc))

\* run_session resumes with the message read in OPEN_CONFIRM (535-549)
RecvOpenConfirm(s, m) ==
    /\ sess[s].pc = "read_ka"
    /\ ~sess[s].cancelled
    /\ LET sn == [sess[s] EXCEPT
                    !.recv = m]
           ka == start(sn.keepalive_timer)
           hd == start(sn.hold_timer)
       IN  IF m.type = "EOF"
           THEN Ended(s, sn, loc_rib, "none")
           ELSE IF m.type = "NOTIFICATION"
           THEN Ended(s, [sn EXCEPT !.last_error = m], loc_rib, "none")
           ELSE /\ sess' = [sess EXCEPT ![s] =
                              [sn EXCEPT !.state = "ESTABLISHED",
                                         !.was_established = TRUE,
                                         !.keepalive_timer = ka.timer,
                                         !.hold_timer = hd.timer,
                                         !.pc = "read_loop"]]
                /\ UNCHANGED <<sessions, base, loc_rib>>
    /\ UNCHANGED cfg
    /\ OnlyFSM

\* the loop of run_session after on_update ended as upd: it goes on, or
\* ends with the NOTIFICATION of a NotificationException written and kept
\* in last_error (552-554), or with another exception
Updated(s, upd) ==
    IF upd.exc = "none"
    THEN /\ sess' = [sess EXCEPT ![s] = upd.sn]
         /\ loc_rib' = upd.loc_rib
         /\ UNCHANGED <<sessions, base>>
    ELSE IF upd.exc = "NotificationException"
    THEN Ended(s, [upd.sn EXCEPT !.out = @ \cup {upd.notification},
                                 !.last_error = upd.notification],
               upd.loc_rib, "none")
    ELSE Ended(s, upd.sn, upd.loc_rib, upd.exc)

\* one turn of the loop in ESTABLISHED (549-551) with handle_message: a
\* KEEPALIVE calls Timer.reset, which Timer does not have; an UPDATE goes
\* to on_update, which ServerSession only prints
RecvEstablished(s, m) ==
    /\ sess[s].pc = "read_loop"
    /\ ~sess[s].cancelled
    /\ LET sn == [sess[s] EXCEPT
                    !.recv = m]
       IN  IF m.type = "EOF"
           THEN Ended(s, sn, loc_rib, "none")
           ELSE IF m.type = "KEEPALIVE"
           THEN Ended(s, sn, loc_rib, "AttributeError")
           ELSE IF m.type = "UPDATE" /\ isRoutingSession(sn)
           THEN Updated(s, on_update(sn, loc_rib, m))
           ELSE /\ sess' = [sess EXCEPT ![s] =
                              IF m.type = "NOTIFICATION"
                              THEN [sn EXCEPT !.last_error = m]
                              ELSE sn]
                /\ UNCHANGED <<sessions, base, loc_rib>>
    /\ UNCHANGED cfg
    /\ OnlyFSM

\* reader_task.cancel() takes effect where the loop is suspended:
\* CancelledError is re-raised through the finally block
DeliverCancel(s) ==
    /\ sess[s].cancelled
    /\ sess[s].pc \in {"read_ka", "read_loop"}
    /\ Ended(s, [sess[s] EXCEPT !.cancelled = FALSE], loc_rib,
             "CancelledError")
    /\ UNCHANGED cfg
    /\ OnlyFSM

\* Timer._run of the hold timer with hold_callback: the reader task is
\* cancelled, then `notif_msg.to_bytes()` on None raises in the timer task
HoldExpire(s) ==
    /\ sess[s].hold_timer.task = "pending"
    /\ sess' = [sess EXCEPT ![s] =
                  IF @.state # "ESTABLISHED"
                  THEN [@ EXCEPT !.hold_timer.task = "done"]
                  ELSE [@ EXCEPT !.hold_timer.task = "done",
                                 !.cancelled = TRUE,
                                 !.hold_expired = TRUE]]
    /\ UNCHANGED <<cfg, sessions, base, loc_rib>>
    /\ OnlyFSM

\* Timer._run of the keepalive timer with keepalive_callback: KEEPALIVE is
\* written, then timer.start() is called from the task the timer holds in
\* _task; when start raises, the task ends with that exception
keepalive_callback(sn) ==
    LET again == start(sn.keepalive_timer)
    IN  IF sn.state # "ESTABLISHED"
        THEN [sn EXCEPT !.keepalive_timer.task = "done"]
        ELSE [sn EXCEPT !.out = @ \cup {KeepaliveMessage},
                        !.keepalive_timer =
                            IF again.raised
                            THEN [@ EXCEPT !.task = "done"]
                            ELSE again.timer]
KeepaliveExpire(s) ==
    /\ sess[s].keepalive_timer.task = "pending"
    /\ sess' = [sess EXCEPT ![s] = keepalive_callback(@)]
    /\ UNCHANGED <<cfg, sessions, base, loc_rib>>
    /\ OnlyFSM

FSMNext ==
    \E s \in Slots :
        \/ Accept(s)
        \/ Connect(s)
        \/ \E m \in Inputs : RecvOpenSent(s, m)
        \/ WaitClosed(s)
        \/ DrainKeepalive(s)
        \/ \E m \in LaterInputs : RecvOpenConfirm(s, m)
        \/ \E m \in LaterInputs : RecvEstablished(s, m)
        \/ DeliverCancel(s)
        \/ HoldExpire(s)
        \/ KeepaliveExpire(s)

FSMIdle ==
    /\ cfg = [hold_time |-> 0, keepalive_time |-> 0]
    /\ sess = [s \in Slots |-> ServerSession(FALSE, 0, 0)]
    /\ sessions = NoSessions
    /\ base = Template(FALSE, 0)
    /\ loc_rib = EmptyRIB

(***************************************************************************)
(* Routing sessions of a RoutingServer                                     *)
(***************************************************************************)
\* RoutingSession.__init__: a ServerSession with an empty Adj-RIB-In and
\* a filter
RoutingSession(active, hold_time, keepalive_time, lcaps, flt) ==
    [ServerSession(active, hold_time, keepalive_time)
        EXCEPT !.local_capabilities = lcaps]
    @@ [adj_rib_in |-> EmptyRIB, filter_in |-> flt]
Filters == {"accept_all_filter", "reject_all_filter"}
\* the local side speaks IPv4 unicast; the Loc-RIB has that protocol
\* registered or none
RoutingCapabilities == {MultiprotocolCapability(AFI_IPV4, SAFI_UNICAST)}
LocProtoSets == {{}, {<<AFI_IPV4, SAFI_UNICAST>>}}
\* every connection comes from a peer of its own: the OPEN read on
\* connection s has router_id s
PeerOpen ==
    {OpenMessageWith(1, s, {MultiprotocolCapability(AFI_IPV4, SAFI_UNICAST)}) :
        s \in Slots}
PrefixP == IPNLRI(Net(1, 0))
PrefixQ == IPNLRI(Net(2, 1))
AnnounceP == Update(<<>>, <<OriginAttribute>>, <<PrefixP>>)
WithdrawP == Update(<<PrefixP>>, <<>>, <<>>)
RoutingUpdates ==
    {AnnounceP, WithdrawP,
     Update(<<>>, <<MultiprotocolUnreachableNLRI(
                       AFI_IPV6, SAFI_UNICAST, <<PrefixQ>>)>>, <<>>),
     Update(<<>>, <<OriginAttribute,
                    MultiprotocolReachableNLRI(
                       AFI_IPV6, SAFI_UNICAST, <<PrefixQ>>)>>, <<>>),
     Update(<<>>, <<MultiprotocolReachableNLRI(
                       AFI_IPV4, SAFI_UNICAST, <<>>),
                    MultiprotocolUnreachableNLRI(
                       AFI_IPV6, SAFI_UNICAST, <<PrefixQ>>)>>, <<>>)}
ConfirmInputs == {KeepaliveMessage, EOF}
RoutingInputs ==
    RoutingUpdates \cup {KeepaliveMessage, NotificationMessage(6, 0), EOF}

\* the peers are configured with a hold time and without keepalives
RoutingInit ==
    /\ cfg \in [hold_time : HoldTimes \ {0}, keepalive_time : {0}]
    /\ \E flt \in Filters :
          sess = [s \in Slots |->
                    RoutingSession(FALSE, cfg.hold_time, cfg.keepalive_time,
                                   RoutingCapabilities, flt)]
    /\ sessions = NoSessions
    /\ base = Template(FALSE, 0)
    /\ \E protos \in LocProtoSets :
          loc_rib = register_protos(EmptyRIB, protos)

\* the same peers, with the locks of the Loc-RIB loops kept per session
LocksInit ==
    /\ cfg \in [hold_time : HoldTimes \ {0}, keepalive_time : {0}]
    /\ \E flt \in Filters :
          sess = [s \in Slots |->
                    RoutingSession(FALSE, cfg.hold_time, cfg.keepalive_time,
                                   RoutingCapabilities, flt)
                    @@ [loc_rib_held |-> {}]]
    /\ sessions = NoSessions
    /\ base = Template(FALSE, 0)
    /\ \E protos \in LocProtoSets :
          loc_rib = register_protos(EmptyRIB, protos)

RoutingNext ==
    \E s \in Slots :
        \/ Accept(s)
        \/ \E m \in PeerOpen : m.router_id = s /\ RecvOpenSent(s, m)
        \/ DrainKeepalive(s)
        \/ \E m \in ConfirmInputs : RecvOpenConfirm(s, m)
        \/ \E m \in RoutingInputs : RecvEstablished(s, m)
        \/ DeliverCancel(s)
        \/ HoldExpire(s)

(***************************************************************************)
(* The wire format (message.py).  A bytes object is a sequence of octets.  *)
(***************************************************************************)
\* b[i:j] and b[i:]
Slice(b, i, j) == SubSeq(b, i + 1, IF j < Len(b) THEN j ELSE Len(b))
From(b, i) == SubSeq(b, i + 1, Len(b))
\* int.from_bytes(b, byteorder="big")
RECURSIVE int_from_bytes(_)
int_from_bytes(b) ==
    IF b = <<>> THEN 0
    ELSE int_from_bytes(SubSeq(b, 1, Len(b) - 1)) * 256 + b[Len(b)]
\* v.to_bytes(n, byteorder="big") of a v that fits into n octets
int_to_bytes(v, n) == [i \in 1..n |-> (v \div (256 ^ (n - i))) % 256]
\* v.to_bytes(n, ...) raises OverflowError for any other v
fits(v, n) == v < 256 ^ n
Octets(x, n) == [i \in 1..n |-> x]

message_length(message) == int_from_bytes(Slice(message, 16, 18))
is_full_message(message) ==
    Len(message) >= message_length(message) /\ Len(message) >= 18

\* the buffers: the first n octets of a marker, a length field and zeros
MaxBuffer == 22
DeclaredLengths == {0, 1, 18, 19, 20, 21, 22, 23, 24, 275}
Buffer(n, declared) ==
    SubSeq(Octets(255, 16) \o int_to_bytes(declared, 2)
               \o Octets(0, MaxBuffer), 1, n)
Buffers == {Buffer(n, d) : n \in 0..MaxBuffer, d \in DeclaredLengths}

NoOutput == <<>>
BufferInit ==
    /\ cin \in Buffers
    /\ cout = NoOutput
CheckFull ==
    /\ cout = NoOutput
    /\ cout' = <<[full |-> is_full_message(cin)]>>
    /\ UNCHANGED cin
    /\ OnlyCodec
BufferNext == CheckFull
CodecIdle ==
    /\ cin = NoMsg
    /\ cout = NoOutput

\* PathAttribute: flags, type_ and payload
FLAG_EXTENDED_LENGTH == 16
PathAttribute(flags, type_, payload) ==
    [flags |-> flags, type_ |-> type_, payload |-> payload]
\* flags & mask for a mask that is 0 or one bit
flags_and(flags, mask) ==
    IF mask = 0 THEN 0 ELSE ((flags \div mask) % 2) * mask
\* flags ^ bits for bits that are set in flags
flags_xor(flags, bits) == flags - bits
extended_length(attr) == flags_and(attr.flags, FLAG_EXTENDED_LENGTH) # 0
\* the setter of extended_length:
\* self.flags ^= self.flags & self.FLAG_EXTENDED_LENGTH * (not b)
set_extended_length(attr, b) ==
    [attr EXCEPT !.flags =
        flags_xor(@, flags_and(@, FLAG_EXTENDED_LENGTH
                                      * (IF b THEN 0 ELSE 1)))]
\* PathAttribute.to_bytes: [exc, bytes], and self afterwards
PathAttribute_to_bytes_of(self, payload_len) ==
    IF extended_length(self)
    THEN IF ~fits(payload_len, 2)
         THEN [exc |-> "OverflowError", self |-> self]
         ELSE [exc |-> "none", self |-> self,
               bytes |-> <<self.flags, self.type_>>
                             \o int_to_bytes(payload_len, 2)
                             \o self.payload]
    ELSE IF ~fits(payload_len, 1)
         THEN [exc |-> "OverflowError", self |-> self]
         ELSE [exc |-> "none", self |-> self,
               bytes |-> <<self.flags, self.type_>>
                             \o int_to_bytes(payload_len, 1)
                             \o self.payload]
PathAttribute_to_bytes(attr) ==
    PathAttribute_to_bytes_of(
        IF Len(attr.payload) > 255
        THEN set_extended_length(attr, TRUE) ELSE attr,
        Len(attr.payload))
\* PathAttribute.from_bytes
PathAttribute_from_bytes(b) ==
    LET attr == PathAttribute(b[1], b[2], <<>>) IN
    IF extended_length(attr)
    THEN [attr EXCEPT !.payload =
            Slice(b, 4, 4 + int_from_bytes(Slice(b, 2, 4)))]
    ELSE [attr EXCEPT !.payload = Slice(b, 3, 3 + b[3])]

\* the attributes encoded: with and without the extended-length flag, with
\* payloads around 255 octets
AttributeFlags == {0, 16, 64, 80, 192, 208}
AttributeTypes == {1, 8}
PayloadLengths == {0, 1, 255, 256, 300}
PathAttributes ==
    {PathAttribute(f, t, Octets(7, n)) :
        f \in AttributeFlags, t \in AttributeTypes, n \in PayloadLengths}
AttributeInit ==
    /\ cin \in PathAttributes
    /\ cout = NoOutput
EncodeAttribute ==
    /\ cout = NoOutput
    /\ cout' = <<PathAttribute_to_bytes(cin)>>
    /\ UNCHANGED cin
    /\ OnlyCodec
DecodeAttribute ==
    /\ Len(cout) = 1
    /\ cout[1].exc = "none"
    /\ cout' = Append(cout, PathAttribute_from_bytes(cout[1].bytes))
    /\ UNCHANGED cin
    /\ OnlyCodec
AttributeNext == EncodeAttribute \/ DecodeAttribute

\* the UPDATE messages handed to Route.from_update: up to MaxAttributes path
\* attributes, up to one NLRI and one withdrawn NLRI at the top level
MaxAttributes == 2
UpTo(S, n) == UNION {[1..k -> S] : k \in 0..n}
UpdateAttributes ==
    {OriginAttribute,
     MultiprotocolReachableNLRI(AFI_IPV4, SAFI_UNICAST, <<IPNLRI(Net(1, 0))>>),
     MultiprotocolReachableNLRI(AFI_IPV6, SAFI_UNICAST, <<IPNLRI(Net(2, 1))>>),
     MultiprotocolUnreachableNLRI(AFI_IPV4, SAFI_UNICAST,
                                  <<IPNLRI(Net(1, 0))>>),
     MultiprotocolUnreachableNLRI(AFI_IPV6, SAFI_UNICAST,
                                  <<IPNLRI(Net(2, 1)), IPNLRI(Net(1, 0))>>)}
Updates ==
    {Update(w, a, n) : w \in UpTo({IPNLRI(Net(2, 1))}, 1),
                       a \in UpTo(UpdateAttributes, MaxAttributes),
                       n \in UpTo({IPNLRI(Net(1, 0))}, 1)}
UpdateInit ==
    /\ cin \in Updates
    /\ cout = NoOutput
\* list(Route.from_update(cin))
FromUpdate ==
    /\ cout = NoOutput
    /\ cout' = <<from_update(cin)>>
    /\ UNCHANGED cin
    /\ OnlyCodec
UpdateNext == FromUpdate

\* capabilities without a record so far, and the Capability of any type
RouteRefreshCapability == [cap |-> "RouteRefresh"]
GracefulRestartCapability(restart_flags, restart_time, tuples) ==
    [cap |-> "GracefulRestart", restart_flags |-> restart_flags,
     restart_time |-> restart_time, tuples |-> tuples]
Capability(type_, payload) ==
    [cap |-> "Capability", type_ |-> type_, payload |-> payload]
\* type_ of the capability classes
capability_type_(c) ==
    CASE c.cap = "Multiprotocol" -> 1
      [] c.cap = "RouteRefresh" -> 2
      [] c.cap = "GracefulRestart" -> 64
      [] c.cap = "FourOctetASN" -> 65
      [] c.cap = "AddPath" -> 69
      [] c.cap = "Capability" -> c.type_
\* AddPathCapability.payload: the tuples of the set in some order
RECURSIVE add_path_payload(_)
add_path_payload(protos) ==
    IF protos = {} THEN <<>>
    ELSE LET t == CHOOSE x \in protos : TRUE
         IN  int_to_bytes(t[1], 2) \o int_to_bytes(t[2], 1)
                 \o int_to_bytes(t[3], 1) \o add_path_payload(protos \ {t})
\* the payload property of the capability classes
capability_payload(c) ==
    CASE c.cap = "Multiprotocol" ->
             int_to_bytes(c.afi, 2) \o <<0>> \o int_to_bytes(c.safi, 1)
      [] c.cap = "RouteRefresh" -> <<>>
      [] c.cap = "GracefulRestart" -> <<>>
      [] c.cap = "FourOctetASN" -> int_to_bytes(c.asn, 4)
      [] c.cap = "AddPath" -> add_path_payload(c.protos)
      [] c.cap = "Capability" -> c.payload
Capability_to_bytes(c) ==
    <<capability_type_(c), Len(capability_payload(c))>>
        \o capability_payload(c)
Capability_from_bytes(b) == Capability(b[1], Slice(b, 2, 2 + b[2]))
\* the loop of AddPathCapability.from_bytes
RECURSIVE add_path_protos(_)
add_path_protos(b) ==
    IF Len(b) < 4 THEN {}
    ELSE {<<int_from_bytes(Slice(b, 0, 2)), int_from_bytes(Slice(b, 2, 3)),
            int_from_bytes(Slice(b, 3, 4))>>}
             \cup add_path_protos(From(b, 4))
\* GracefulRestartCapability.from_bytes on the payload b; its loop
\* `while not b and len(b) >= 4` is never entered
graceful_restart_from_payload(b) ==
    LET restart_flags == int_from_bytes(Slice(b, 0, 2))
    IN  GracefulRestartCapability(restart_flags \div 4096,
                                  restart_flags % 4096, <<>>)
\* MessageDecoder.coerce_capability with the capability_types of
\* default_decoder: from_bytes of the class registered for c.type_
coerce_capability(c) ==
    CASE c.type_ = 1 ->
             MultiprotocolCapability(int_from_bytes(Slice(c.payload, 0, 2)),
                                     int_from_bytes(Slice(c.payload, 3, 4)))
      [] c.type_ = 2 -> RouteRefreshCapability
      [] c.type_ = 64 -> graceful_restart_from_payload(c.payload)
      [] c.type_ = 65 ->
             FourOctetASNCapability(int_from_bytes(Slice(c.payload, 0, 4)))
      [] c.type_ = 69 -> AddPathCapability(add_path_protos(c.payload))
      [] OTHER -> c

\* Parameter and CapabilityParameter
Parameter(type_, payload) == [type_ |-> type_, payload |-> payload]
RECURSIVE capabilities_to_bytes(_)
capabilities_to_bytes(caps) ==
    IF caps = <<>> THEN <<>>
    ELSE Capability_to_bytes(Head(caps)) \o capabilities_to_bytes(Tail(caps))
parameter_payload(param) ==
    IF "capabilities" \in DOMAIN param
    THEN capabilities_to_bytes(param.capabilities) ELSE param.payload
Parameter_to_bytes(param) ==
    <<param.type_, Len(parameter_payload(param))>>
        \o parameter_payload(param)
Parameter_from_bytes(b) == Parameter(b[1], Slice(b, 2, 2 + b[2]))
\* the loop of CapabilityParameter.from_parameter
RECURSIVE from_parameter(_)
from_parameter(b) ==
    IF Len(b) < 2 THEN <<>>
    ELSE LET capability == Capability_from_bytes(b)
         IN  <<capability>>
                 \o from_parameter(From(b, Len(Capability_to_bytes(capability))))
\* MessageDecoder.coerce_parameter with the parameter_types of
\* default_decoder, and the coerce_capability of decode_message after it
coerce_parameter(param) ==
    IF param.type_ = 2
    THEN LET caps == from_parameter(param.payload)
         IN  CapabilityParameter(
                 [i \in DOMAIN caps |-> coerce_capability(caps[i])])
    ELSE param

\* messages with all their fields.  The parameters of an OPEN are a list
NotificationMessageWith(error_code, error_subcode, data) ==
    [type |-> "NOTIFICATION", error_code |-> error_code,
     error_subcode |-> error_subcode, data |-> data]
RouteRefreshMessageWith(afi, safi, subtype) ==
    [type |-> "ROUTE_REFRESH", afi |-> afi, safi |-> safi,
     subtype |-> subtype]
OpenMessageOf(version, asn, hold_time, bgp_identifier, parameters) ==
    [type |-> "OPEN", version |-> version, asn |-> asn,
     hold_time |-> hold_time, bgp_identifier |-> bgp_identifier,
     parameters |-> parameters]
MessageType(msg) ==
    CASE msg.type = "OPEN" -> 1
      [] msg.type = "UPDATE" -> 2
      [] msg.type = "NOTIFICATION" -> 3
      [] msg.type = "KEEPALIVE" -> 4
      [] msg.type = "ROUTE_REFRESH" -> 5
RECURSIVE to_bytes_parameters(_)
to_bytes_parameters(parameters) ==
    IF parameters = <<>> THEN <<>>
    ELSE Parameter_to_bytes(Head(parameters))
             \o to_bytes_parameters(Tail(parameters))
\* the payload property of OpenMessage, NotificationMessage,
\* KeepaliveMessage and RouteRefreshMessage
Message_payload(msg) ==
    CASE msg.type = "OPEN" ->
             int_to_bytes(msg.version, 1) \o int_to_bytes(msg.asn, 2)
                 \o int_to_bytes(msg.hold_time, 2)
                 \o int_to_bytes(msg.bgp_identifier, 4)
                 \o int_to_bytes(Len(to_bytes_parameters(msg.parameters)), 1)
                 \o to_bytes_parameters(msg.parameters)
      [] msg.type = "NOTIFICATION" ->
             <<msg.error_code, msg.error_subcode>> \o msg.data
      [] msg.type = "KEEPALIVE" -> <<>>
      [] msg.type = "ROUTE_REFRESH" ->
             int_to_bytes(msg.afi, 2) \o int_to_bytes(msg.subtype, 1)
                 \o int_to_bytes(msg.safi, 1)
\* the length property
Message_length(msg) ==
    CASE msg.type = "OPEN" ->
             19 + 10 + Len(to_bytes_parameters(msg.parameters))
      [] msg.type = "KEEPALIVE" -> 19
      [] msg.type = "ROUTE_REFRESH" -> 19 + 4
      [] OTHER -> Len(Message_payload(msg)) + 19
Message_to_bytes(msg) ==
    Octets(255, 16) \o int_to_bytes(Message_length(msg), 2)
        \o int_to_bytes(MessageType(msg), 1) \o Message_payload(msg)
\* the loop of OpenMessage.from_payload
RECURSIVE open_parameters(_, _)
open_parameters(b, opt_param_len) ==
    IF opt_param_len < 2 THEN <<>>
    ELSE LET param == Parameter_from_bytes(b)
             param_len == Len(Parameter_to_bytes(param))
         IN  <<param>>
                 \o open_parameters(From(b, param_len),
                                    opt_param_len - param_len)
\* from_payload of the class that default_decoder has for type_
from_payload(type_, b) ==
    CASE type_ = 1 ->
             OpenMessageOf(int_from_bytes(Slice(b, 0, 1)),
                           int_from_bytes(Slice(b, 1, 3)),
                           int_from_bytes(Slice(b, 3, 5)),
                           int_from_bytes(Slice(b, 5, 9)),
                           open_parameters(From(b, 10),
                                           int_from_bytes(Slice(b, 9, 10))))
      [] type_ = 3 -> NotificationMessageWith(b[1], b[2], From(b, 2))
      [] type_ = 4 -> KeepaliveMessage
      [] type_ = 5 ->
             RouteRefreshMessageWith(int_from_bytes(Slice(b, 0, 2)),
                                     int_from_bytes(Slice(b, 3, 4)),
                                     int_from_bytes(Slice(b, 2, 3)))
\* default_decoder.decode_message: Message.from_bytes, coerce_message,
\* and for an OPEN coerce_parameter and coerce_capability
decode_message(b) ==
    LET msg == from_payload(int_from_bytes(Slice(b, 18, 19)), From(b, 19))
    IN  IF msg.type = "OPEN"
        THEN [msg EXCEPT !.parameters =
                [i \in DOMAIN @ |-> coerce_parameter(@[i])]]
        ELSE msg

\* the messages encoded: OPENs whose parameters carry every kind of
\* capability, NOTIFICATIONs, KEEPALIVE and ROUTE_REFRESHs
CodecCapabilities ==
    {MultiprotocolCapability(AFI_IPV4, SAFI_UNICAST),
     MultiprotocolCapability(AFI_IPV6, SAFI_UNICAST),
     RouteRefreshCapability,
     GracefulRestartCapability(0, 0, <<>>),
     GracefulRestartCapability(0, 120, <<>>),
     GracefulRestartCapability(8, 120, <<<<AFI_IPV4, SAFI_UNICAST, 128>>>>),
     FourOctetASNCapability(65537),
     AddPathCapability({<<AFI_IPV4, SAFI_UNICAST, 3>>}),
     AddPathCapability({<<AFI_IPV4, SAFI_UNICAST, 3>>,
                        <<AFI_IPV6, SAFI_UNICAST, 1>>})}
CodecParameters ==
    {<<>>,
     <<CapabilityParameter(<<MultiprotocolCapability(AFI_IPV4, SAFI_UNICAST),
                             FourOctetASNCapability(65537)>>)>>,
     <<as_param(MultiprotocolCapability(AFI_IPV6, SAFI_UNICAST)),
       as_param(RouteRefreshCapability)>>}
        \cup {<<as_param(c)>> : c \in CodecCapabilities}
CodecMessages ==
    {OpenMessageOf(4, asn, hold_time, 16777217, parameters) :
        asn \in {AS_TRANS, 100}, hold_time \in {0, 180},
        parameters \in CodecParameters}
    \cup {NotificationMessageWith(6, 0, <<>>),
          NotificationMessageWith(3, 9, <<1, 2>>),
          NotificationMessageWith(2, 7, <<65, 4, 0, 1, 0, 1>>)}
    \cup {KeepaliveMessage}
    \cup {RouteRefreshMessageWith(AFI_IPV4, SAFI_UNICAST, 0),
          RouteRefreshMessageWith(AFI_IPV6, SAFI_UNICAST, 0),
          RouteRefreshMessageWith(AFI_IPV4, SAFI_MULTICAST, 1)}
MessageInit ==
    /\ cin \in CodecMessages
    /\ cout = NoOutput
EncodeMessage ==
    /\ cout = NoOutput
    /\ cout' = <<[bytes |-> Message_to_bytes(cin)]>>
    /\ UNCHANGED cin
    /\ OnlyCodec
DecodeMessage ==
    /\ Len(cout) = 1
    /\ cout' = Append(cout, decode_message(cout[1].bytes))
    /\ UNCHANGED cin
    /\ OnlyCodec
MessageNext == EncodeMessage \/ DecodeMessage

(***************************************************************************)
(* The connect-retry timer of the configured peers (server.py 295-302,     *)
(* 363-366, 386-398, 400-427)                                              *)
(***************************************************************************)
MaxPeers == 2
MaxInbound == 1
PeerIds == 1..MaxPeers
ConnectRetryTimes == {0, 1}
\* what the peer sends first on an outbound connection, and later
FirstInputs == {"OPEN", "NOTIFICATION", "EOF"}
NextInputs == {"KEEPALIVE", "NOTIFICATION", "EOF"}

\* start called from a place that does not catch what it raises: the timer
\* afterwards
start_or_raise(timer) == start(timer).timer

\* a peer in BGPServer.peers: the ServerSession given to add_active_session
\* or a passive template.  conn is the outbound connection task ("none",
\* "connecting" at open_connection, "up" inside run_session), inbound the
\* number of accept_handler tasks running for the peer
Peer(active, connect_retry_time) ==
    [active |-> active, state |-> "IDLE",
     connect_retry_timer |-> Timer(connect_retry_time),
     conn |-> "none", inbound |-> 0]

\* connect_retry_callback, run by Timer._run in the task the timer holds:
\* timer.start() raises there and the task ends
connect_retry_callback(peer) ==
    IF ~peer.active \/ peer.state # "IDLE"
    THEN [peer EXCEPT !.connect_retry_timer.task = "done"]
    ELSE LET again == start(peer.connect_retry_timer)
         IN  [peer EXCEPT !.state = "CONNECT", !.conn = "connecting",
                          !.connect_retry_timer =
                              IF again.raised
                              THEN [@ EXCEPT !.task = "done"]
                              ELSE again.timer]
\* the finally of connect
connect_finally(peer) ==
    [peer EXCEPT !.conn = "none",
                 !.connect_retry_timer =
                     IF peer.active THEN start_or_raise(@) ELSE @]
\* ServerSession.create_timers for the connect-retry timer
create_retry_timer(peer) ==
    [peer EXCEPT !.connect_retry_timer = Timer(@.delta)]

RetryInit ==
    /\ peers \in [PeerIds -> {Peer(a, t) : a \in BOOLEAN,
                                           t \in ConnectRetryTimes}]
    /\ running = FALSE

\* BGPServer.start
Start ==
    /\ ~running
    /\ running' = TRUE
    /\ peers' = [p \in PeerIds |->
                   IF peers[p].active
                   THEN [peers[p] EXCEPT
                           !.connect_retry_timer = force_start(@)]
                   ELSE peers[p]]
    /\ OnlyRetry
\* Timer._run of the connect-retry timer after its sleep
RetryExpire(p) ==
    /\ peers[p].connect_retry_timer.task = "pending"
    /\ peers' = [peers EXCEPT ![p] = connect_retry_callback(@)]
    /\ UNCHANGED running
    /\ OnlyRetry
\* connect: asyncio.open_connection raises (server.py 389, before the try)
ConnectFails(p) ==
    /\ peers[p].conn = "connecting"
    /\ peers' = [peers EXCEPT ![p].conn = "none"]
    /\ UNCHANGED running
    /\ OnlyRetry
\* connect: the connection is made; force_stop, then run_session up to its
\* first read
ConnectSucceeds(p) ==
    /\ peers[p].conn = "connecting"
    /\ peers' = [peers EXCEPT ![p] =
                   [@ EXCEPT !.conn = "up", !.state = "OPEN_SENT",
                             !.connect_retry_timer = force_stop(@)]]
    /\ UNCHANGED running
    /\ OnlyRetry
\* run_session of the outbound connection resumes in OPEN_SENT: anything
\* but an OPEN leaves it before the try, with the state as it is
ReadFirst(p, m) ==
    /\ peers[p].conn = "up" /\ peers[p].state = "OPEN_SENT"
    /\ peers' = [peers EXCEPT ![p] =
                   IF m = "OPEN"
                   THEN [create_retry_timer(@) EXCEPT !.state = "OPEN_CONFIRM"]
                   ELSE connect_finally(@)]
    /\ UNCHANGED running
    /\ OnlyRetry
\* run_session resumes in OPEN_CONFIRM or ESTABLISHED: a NOTIFICATION or the
\* end of the stream runs its finally (state IDLE), then that of connect
ReadNext(p, m) ==
    /\ peers[p].conn = "up"
    /\ peers[p].state \in {"OPEN_CONFIRM", "ESTABLISHED"}
    /\ peers' = [peers EXCEPT ![p] =
                   IF m = "KEEPALIVE"
                   THEN [@ EXCEPT !.state = "ESTABLISHED"]
                   ELSE connect_finally([@ EXCEPT !.state = "IDLE"])]
    /\ UNCHANGED running
    /\ OnlyRetry
\* accept_handler for a connection from the peer, up to run_session
AcceptBegin(p) ==
    /\ peers[p].inbound < MaxInbound
    /\ peers' = [peers EXCEPT ![p] =
                   [@ EXCEPT !.inbound = @ + 1,
                             !.connect_retry_timer = force_stop(@)]]
    /\ UNCHANGED running
    /\ OnlyRetry
\* the finally of accept_handler
AcceptEnd(p) ==
    /\ peers[p].inbound > 0
    /\ peers' = [peers EXCEPT ![p] =
                   [@ EXCEPT !.inbound = @ - 1,
                             !.connect_retry_timer =
                                 IF peers[p].active
                                 THEN start_or_raise(@) ELSE @]]
    /\ UNCHANGED running
    /\ OnlyRetry

RetryNext ==
    \/ Start
    \/ \E p \in PeerIds :
        \/ RetryExpire(p)
        \/ ConnectFails(p)
        \/ ConnectSucceeds(p)
        \/ \E m \in FirstInputs : ReadFirst(p, m)
        \/ \E m \in NextInputs : ReadNext(p, m)
        \/ AcceptBegin(p)
        \/ AcceptEnd(p)
RetryIdle ==
    /\ peers = [p \in PeerIds |-> Peer(FALSE, 0)]
    /\ running = FALSE

\* one connection of a passive peer to the server: accept_handler with the
\* session loop and the timers of the session
AcceptSlots == {1}
AcceptInit ==
    /\ cfg \in [hold_time : HoldTimes, keepalive_time : KeepaliveTimes]
    /\ sess = [s \in Slots |->
                 ServerSession(FALSE, cfg.hold_time, cfg.keepalive_time)]
    /\ sessions = NoSessions
    /\ base \in {Template(FALSE, t) : t \in ConnectRetryTimes}
    /\ loc_rib = EmptyRIB
AcceptNext ==
    \E s \in AcceptSlots :
        \/ Accept(s)
        \/ \E m \in Inputs : RecvOpenSent(s, m)
        \/ DrainKeepalive(s)
        \/ \E m \in LaterInputs : RecvOpenConfirm(s, m)
        \/ \E m \in LaterInputs : RecvEstablished(s, m)
        \/ DeliverCancel(s)
        \/ HoldExpire(s)
        \/ KeepaliveExpire(s)

(***************************************************************************)
(* Specifications                                                          *)
(***************************************************************************)
vars ==
    <<rtVars, orderVars, ribVars, fsmVars, capVars, retryVars, codecVars>>

InitRT ==
    RTInit /\ OrderIdle /\ RIBIdle /\ FSMIdle /\ CapsIdle /\ RetryIdle
        /\ CodecIdle
InitTree ==
    TreeInit /\ OrderIdle /\ RIBIdle /\ FSMIdle /\ CapsIdle /\ RetryIdle
        /\ CodecIdle
InitAccept ==
    AcceptInit /\ RTInit /\ OrderIdle /\ RIBIdle /\ CapsIdle /\ RetryIdle
        /\ CodecIdle
InitLocks ==
    LocksInit /\ RTInit /\ OrderIdle /\ RIBIdle /\ CapsIdle /\ RetryIdle
        /\ CodecIdle
InitOrder ==
    OrderInit /\ RTInit /\ RIBIdle /\ FSMIdle /\ CapsIdle /\ RetryIdle
        /\ CodecIdle
InitRIB ==
    RIBInit /\ RTInit /\ OrderIdle /\ FSMIdle /\ CapsIdle /\ RetryIdle
        /\ CodecIdle
InitFSM ==
    FSMInit /\ RTInit /\ OrderIdle /\ RIBIdle /\ CapsIdle /\ RetryIdle
        /\ CodecIdle
InitReload ==
    CapsInit /\ RTInit /\ OrderIdle /\ RIBIdle /\ FSMIdle /\ RetryIdle
        /\ CodecIdle
InitCaps ==
    CapsInit /\ RTInit /\ OrderIdle /\ RIBIdle /\ FSMIdle /\ RetryIdle
        /\ CodecIdle
InitRouting ==
    RoutingInit /\ RTInit /\ OrderIdle /\ RIBIdle /\ CapsIdle /\ RetryIdle
        /\ CodecIdle
InitRIBAdd ==
    RIBAddInit /\ RTInit /\ OrderIdle /\ FSMIdle /\ CapsIdle /\ RetryIdle
        /\ CodecIdle
InitOpen ==
    OpenInit /\ RTInit /\ OrderIdle /\ RIBIdle /\ FSMIdle /\ RetryIdle
        /\ CodecIdle
InitBuffer ==
    BufferInit /\ RTInit /\ OrderIdle /\ RIBIdle /\ FSMIdle /\ CapsIdle
        /\ RetryIdle
InitAttribute ==
    AttributeInit /\ RTInit /\ OrderIdle /\ RIBIdle /\ FSMIdle /\ CapsIdle
        /\ RetryIdle
InitUpdate ==
    UpdateInit /\ RTInit /\ OrderIdle /\ RIBIdle /\ FSMIdle /\ CapsIdle
        /\ RetryIdle
InitMessage ==
    MessageInit /\ RTInit /\ OrderIdle /\ RIBIdle /\ FSMIdle /\ CapsIdle
        /\ RetryIdle
InitRetry ==
    RetryInit /\ RTInit /\ OrderIdle /\ RIBIdle /\ FSMIdle /\ CapsIdle
        /\ CodecIdle

SpecRT == InitRT /\ [][RTNext]_vars
SpecRTAdd == InitRT /\ [][RTAddNext]_vars
SpecTree == InitTree /\ [][TreeNext]_vars
SpecAccept == InitAccept /\ [][AcceptNext]_vars
SpecLocks == InitLocks /\ [][RoutingNext]_vars
SpecOrder == InitOrder /\ [][OrderNext]_vars
SpecRIB == InitRIB /\ [][RIBNext]_vars
SpecFSM == InitFSM /\ [][FSMNext]_vars
SpecReload == InitReload /\ [][ReloadNext]_vars
SpecCaps == InitCaps /\ [][CapsNext]_vars
SpecRouting == InitRouting /\ [][RoutingNext]_vars
SpecRIBAdd == InitRIBAdd /\ [][RIBAddNext]_vars
SpecOpen == InitOpen /\ [][OpenNext]_vars
SpecBuffer == InitBuffer /\ [][BufferNext]_vars
SpecAttribute == InitAttribute /\ [][AttributeNext]_vars
SpecUpdate == InitUpdate /\ [][UpdateNext]_vars
SpecMessage == InitMessage /\ [][MessageNext]_vars
SpecRetry == InitRetry /\ [][RetryNext]_vars

(***************************************************************************)
(* Properties of the routing table                                         *)
(***************************************************************************)
\* the stored pairs whose prefix covers key
Covering(root, key) == {p \in Stored(root) : NetIn(key, p[1])}
\* the longest-prefix match over the stored pairs
MostSpecific(root, key) ==
    CHOOSE p \in Covering(root, key) :
        \A q \in Covering(root, key) : q[1].len <= p[1].len
LongestMatch(root, key) ==
    IF Covering(root, key) = {} THEN KeyError
    ELSE [ok |-> TRUE, net |-> MostSpecific(root, key)[1],
          data |-> MostSpecific(root, key)[2]]

\* C1: after any sequence of add and remove operations, lookup(key) returns
\* the most-specific stored prefix that covers key and its value, and signals
\* KeyError only when no stored prefix covers key.
C1_LookupMostSpecific ==
    \A key \in Keys : lookup(rt, key, FALSE) = LongestMatch(rt, key)

\* C2: right after add(N, v) on a table built by add operations only, exact
\* lookup of N returns v and lookup(a) returns (N, v) for every address a in N
\* that no more-specific stored prefix covers.
C2_AddThenLookup ==
    lastOp.op = "add" =>
        /\ getitem(rt, lastOp.net) =
               [ok |-> TRUE, net |-> lastOp.net, data |-> lastOp.val]
        /\ \A a \in Addrs :
               (/\ NetIn(a, lastOp.net)
                /\ \A p \in Covering(rt, a) : p[1].len <= lastOp.net.len)
               => lookup(rt, a, FALSE) =
                      [ok |-> TRUE, net |-> lastOp.net, data |-> lastOp.val]

\* C3: a remove(N) of a stored prefix N makes exact lookup of N signal
\* KeyError and leaves every other prefix that exact lookup returned before
\* (the prefixes inside N included) returned with the same value.
C3_RemoveKeepsOthers ==
    [][(lastOp'.op = "remove" /\ lastOp'.ok) =>
          /\ ~getitem(rt', lastOp'.net).ok
          /\ \A m \in Nets \ {lastOp'.net} :
                 getitem(rt, m).ok => getitem(rt', m) = getitem(rt, m)]_vars

\* C3 witness: a stored prefix with stored descendants was removed
C3_Witness ==
    /\ lastOp.op = "remove" /\ lastOp.ok
    /\ ~getitem(rt, lastOp.net).ok
    /\ \E m \in Nets \ {lastOp.net} :
           NetIn(m, lastOp.net) /\ getitem(rt, m).ok

\* C26: remove(N) of a network N that holds no value raises KeyError and
\* leaves the stored (net, value) pairs of the table as they were.
C26_RemoveAbsentRaises ==
    [][(lastOp'.op = "remove" /\ lastOp'.net \notin StoredNets(rt)) =>
          /\ ~lastOp'.ok
          /\ Stored(rt') = Stored(rt)]_vars

\* C26 witness: the remove of a network that is in the table as a non-data
\* node below the root, with other networks stored, raised KeyError
C26_Witness ==
    /\ lastOp.op = "remove" /\ ~lastOp.ok
    /\ lastOp.net # rt.net
    /\ \E n \in node_iter(rt) : n.net = lastOp.net /\ ~isDataNode(n)
    /\ Stored(rt) # {}

\* the nodes of the tree as the iteration of the root visits them
Nodes(root) == node_iter_list(root)
Disjoint(a, b) == ~NetIn(a, b) /\ ~NetIn(b, a)

\* C33: after every sequence of add, add_stub and remove operations, for
\* every split-length list and children threshold, the network of each
\* child lies strictly inside the network of its parent, the networks of
\* the children of one node are pairwise disjoint, and no two nodes of the
\* tree have the same network.
C33_TreeWellFormed ==
    LET nodes == Nodes(rt) IN
    /\ \A i \in DOMAIN nodes : \A c \in nodes[i].children :
           NetIn(c.net, nodes[i].net) /\ c.net # nodes[i].net
    /\ \A i \in DOMAIN nodes : \A c, d \in nodes[i].children :
           c # d => Disjoint(c.net, d.net)
    /\ \A i, j \in DOMAIN nodes : i # j => nodes[i].net # nodes[j].net

\* C33 witness: a tree with a split node, made with a split-length list and
\* a threshold other than those of the class, in which a prefix was
\* inserted above stored prefixes and a removed prefix left a non-data node
C33_Witness ==
    /\ tuning # DefaultTuning
    /\ \E n \in node_iter(rt) :
           /\ isDataNode(n)
           /\ \E c \in n.children : isDataNode(c)
           /\ \E c \in n.children : ~isDataNode(c) /\ c.children # {}
    /\ Cardinality(node_iter(rt)) >= 5

\* C38: a remove(N) of a stored prefix whose node has no children leaves no
\* node for N in the tree; a remove of a stored prefix whose node has
\* children leaves a non-data node for N with the same children; a remove of
\* the root leaves a non-data root.
C38_RemoveUnlinksLeaf ==
    [][(lastOp'.op = "remove" /\ lastOp'.ok) =>
          LET node == node_lookup(rt, lastOp'.net)
              left == {n \in node_iter(rt') : n.net = lastOp'.net}
          IN  /\ (node.children = {} /\ lastOp'.net # rt.net) => left = {}
              /\ node.children # {} =>
                     left = {[Node(lastOp'.net) EXCEPT
                                 !.children = node.children]}
              /\ lastOp'.net = rt.net => ~isDataNode(rt')]_vars

\* the number of times x is yielded
Count(list, x) == Cardinality({i \in DOMAIN list : list[i] = x})

\* C39: in every state reached by add and remove operations the iteration
\* of the table yields every stored prefix once and no other prefix, and
\* len is the number of stored prefixes.
C39_IterYieldsStoredOnce ==
    /\ \A n \in Nets :
           Count(rt_iter(rt), n) = IF n \in StoredNets(rt) THEN 1 ELSE 0
    /\ rt_len(rt) = Cardinality(StoredNets(rt))

\* C4: two tables filled from the same pairs in any two orders answer every
\* exact lookup and every longest-match lookup alike.
C4_OrderIndependent ==
    (todoA = {} /\ todoB = {}) =>
        /\ \A n \in Nets : getitem(rtA, n) = getitem(rtB, n)
        /\ \A key \in Keys : lookup(rtA, key, FALSE) = lookup(rtB, key, FALSE)

(***************************************************************************)
(* Properties of the RIB                                                   *)
(***************************************************************************)
Last(log) == log[Len(log)]

\* C5: after add(route) of a route with a registered (afi, safi) and an IP
\* NLRI, get((afi, safi, nlri)) returns route.
C5_AddThenGet ==
    (/\ ribLog # <<>>
     /\ Last(ribLog).op = "add"
     /\ proto(Last(ribLog).route) \in rib.protos
     /\ isIPNLRI(Last(ribLog).route.nlri))
    => rib_getitem(rib, RIBKey(Last(ribLog).route)) =
           [exc |-> "none", val |-> Last(ribLog).route]

\* C6: after add_set(r1) and then add_set(r2) of two different routes with
\* the same (afi, safi, nlri), the set stored at that key holds r1 and r2.
C6_AddSetReusesSet ==
    (/\ Len(ribLog) >= 2
     /\ ribLog[Len(ribLog) - 1].op = "add_set"
     /\ Last(ribLog).op = "add_set"
     /\ ribLog[Len(ribLog) - 1].route # Last(ribLog).route
     /\ RIBKey(ribLog[Len(ribLog) - 1].route) = RIBKey(Last(ribLog).route)
     /\ proto(Last(ribLog).route) \in rib.protos
     /\ isIPNLRI(Last(ribLog).route.nlri))
    => /\ rib_getitem(rib, RIBKey(Last(ribLog).route)).exc = "none"
       /\ {ribLog[Len(ribLog) - 1].route, Last(ribLog).route}
              \subseteq rib_getitem(rib, RIBKey(Last(ribLog).route)).val.set

\* C23: after add(route) and then remove(route) of a route with a registered
\* (afi, safi) and an IP NLRI, get of the route's key signals KeyError and
\* len is what it was before the add.
C23_AddThenRemove ==
    (/\ Len(ribLog) >= 2
     /\ ribLog[Len(ribLog) - 1].op = "add"
     /\ Last(ribLog).op = "remove"
     /\ ribLog[Len(ribLog) - 1].route = Last(ribLog).route
     /\ proto(Last(ribLog).route) \in rib.protos
     /\ isIPNLRI(Last(ribLog).route.nlri))
    => /\ rib_getitem(rib, RIBKey(Last(ribLog).route)).exc = "KeyError"
       /\ rib_len(rib) = ribLog[Len(ribLog) - 1].len

\* C24: `key in rib` is true exactly when get(key) returns a value, and it
\* is true for the key of a route with a registered (afi, safi) and an IP
\* NLRI right after add(route).
C24_ContainsIffStored ==
    /\ \A route \in Routes :
           rib_contains(rib, RIBKey(route))
               <=> rib_getitem(rib, RIBKey(route)).exc = "none"
    /\ (/\ ribLog # <<>>
        /\ Last(ribLog).op = "add"
        /\ proto(Last(ribLog).route) \in rib.protos
        /\ isIPNLRI(Last(ribLog).route.nlri))
       => rib_contains(rib, RIBKey(Last(ribLog).route))

\* C25: add, add_value and add_set of a route whose (afi, safi) is not
\* registered raise ValueError and leave the registered protocols and every
\* table of the RIB as they were.
C25_UnregisteredRejected ==
    [][(/\ Last(ribLog').op \in {"add", "add_value", "add_set"}
        /\ proto(Last(ribLog').route) \notin rib.protos)
       => /\ Last(ribLog').exc = "ValueError"
          /\ rib' = rib]_vars

\* C25 witness: an add to a RIB with a registered protocol was rejected for
\* a route of another protocol
C25_Witness ==
    /\ ribLog # <<>>
    /\ Last(ribLog).op \in {"add", "add_value", "add_set"}
    /\ rib.protos # {}
    /\ proto(Last(ribLog).route) \notin rib.protos
    /\ Last(ribLog).exc = "ValueError"

(***************************************************************************)
(* Properties of the wire format                                           *)
(***************************************************************************)
\* the length field of a buffer that has one: the two octets at offset 16
Declared(buffer) == buffer[17] * 256 + buffer[18]

\* C30: is_full_message(buffer) is true exactly when the buffer holds its
\* length field, the declared length is at least 19 and the buffer is at
\* least as long as the declared length.
C30_FullIffDeclaredReached ==
    cout # NoOutput /\ "full" \in DOMAIN cout[1] =>
        (cout[1].full <=>
            /\ Len(cin) >= 18
            /\ Declared(cin) >= 19
            /\ Len(cin) >= Declared(cin))

\* C28: what default_decoder decodes from the encoding of a message is a
\* message of the same subtype with the same field values, the capabilities
\* of an OPEN included.
C28_DecodeOfEncodeIsSame ==
    Len(cout) >= 2 => cout[2] = cin

\* C29: the encoding of a PathAttribute with a payload of more than 255
\* octets has the EXTENDED_LENGTH flag in its flags octet and a 2-octet
\* length, whether or not the attribute had the flag; and what is decoded
\* from an encoding has the payload that was encoded, the length being read
\* from two octets exactly when the flag is in the flags octet.
C29_ExtendedLengthForLongPayload ==
    /\ (Len(cout) >= 1 /\ Len(cin.payload) > 255) =>
           /\ cout[1].exc = "none"
           /\ flags_and(cout[1].bytes[1], FLAG_EXTENDED_LENGTH) # 0
           /\ Slice(cout[1].bytes, 2, 4) = int_to_bytes(Len(cin.payload), 2)
           /\ From(cout[1].bytes, 4) = cin.payload
    /\ Len(cout) >= 2 =>
           /\ cout[2].payload = cin.payload
           /\ extended_length(cout[2])
                  <=> flags_and(cout[1].bytes[1], FLAG_EXTENDED_LENGTH) # 0

(***************************************************************************)
(* Properties of the session loop                                          *)
(***************************************************************************)
\* C7: a session whose last message read is a NOTIFICATION, read in
\* OPEN_SENT, OPEN_CONFIRM or ESTABLISHED, has terminated, its state is
\* IDLE and its last_error is that NOTIFICATION.
C7_NotificationTerminates ==
    \A s \in Slots :
        sess[s].recv.type = "NOTIFICATION" =>
            /\ sess[s].pc = "done"
            /\ sess[s].state = "IDLE"
            /\ sess[s].last_error = sess[s].recv

\* C8: once the hold timer of an ESTABLISHED session has expired, a
\* NOTIFICATION with error code 4 has been written to the peer, and the
\* session, when its loop has ended, is IDLE.
C8_HoldExpiryNotifies ==
    \A s \in Slots :
        sess[s].hold_expired =>
            /\ \E n \in sess[s].out :
                  n.type = "NOTIFICATION" /\ n.error_code = 4
            /\ sess[s].pc = "done" => sess[s].state = "IDLE"

\* C9: a step that takes a session from OPEN_CONFIRM to ESTABLISHED has
\* read a KEEPALIVE and has started the hold and keepalive timers; no other
\* message read in OPEN_CONFIRM leads to ESTABLISHED.
C9_EstablishedOnlyOnKeepalive ==
    [][\A s \in Slots :
         (sess[s].state = "OPEN_CONFIRM" /\ sess'[s].state = "ESTABLISHED")
            => /\ sess'[s].recv = KeepaliveMessage
               /\ started(sess'[s].hold_timer)
               /\ started(sess'[s].keepalive_timer)]_vars

\* C21: while a session is ESTABLISHED with keepalive_time > 0 its keepalive
\* timer is running: every expiry has written a KEEPALIVE and restarted it.
C21_KeepaliveTimerRestarted ==
    \A s \in Slots :
        sess[s].state = "ESTABLISHED" /\ sess[s].keepalive_timer.delta > 0
            => sess[s].keepalive_timer.task = "pending"

\* C22: once the server is started, an active peer with connect_retry_time
\* > 0 that has no connection up or being made is waiting for its next
\* retry: it is IDLE and its connect-retry timer is running.
C22_RetryArmed ==
    \A p \in PeerIds :
        (/\ running /\ peers[p].active
         /\ peers[p].connect_retry_timer.delta > 0
         /\ peers[p].conn = "none" /\ peers[p].inbound = 0)
            => /\ peers[p].state = "IDLE"
               /\ peers[p].connect_retry_timer.task = "pending"

\* the initiator ASN of a session: the local AS of a connection the server
\* opened, the peer's AS otherwise
InitiatorASN(sn) == IF sn.active THEN local_as ELSE sn.peer_as
\* session a has the lower initiator identifier of a and b
Lower(a, b) ==
    \/ initiator_router_id(a) < initiator_router_id(b)
    \/ /\ initiator_router_id(a) = initiator_router_id(b)
       /\ InitiatorASN(a) < InitiatorASN(b)

\* C10: a session that, with its peer data loaded, found another session
\* registered under its peer_id in OPEN_CONFIRM or ESTABLISHED: exactly one
\* of the two was dropped, the one with the lower initiator router id or,
\* these being equal, the lower initiator ASN, and NOTIFICATION 6 (CEASE)
\* was written to the dropped one.
C10_CollisionDropsLower ==
    \A s \in Slots :
        LET c == sess[s].coll
        IN  (c.found /\ c.other_state \in {"OPEN_CONFIRM", "ESTABLISHED"})
                => /\ Cardinality(c.dropped) = 1
                   /\ Lower(sess[s], sess[c.other]) => c.dropped = {s}
                   /\ Lower(sess[c.other], sess[s]) => c.dropped = {c.other}
                   /\ \A d \in c.dropped :
                         NotificationMessage(6, 0) \in sess[d].out

\* C15: whenever the session loop of a session has ended, on whatever path,
\* the session's state is IDLE and its stream is closed.
C15_LoopEndsIdleClosed ==
    \A s \in Slots :
        sess[s].pc = "done" => sess[s].state = "IDLE" /\ sess[s].closed

\* C16: once the session loop of a session has ended, the sessions map of
\* the server does not hold that session, whether the loop ended in
\* OPEN_CONFIRM or after ESTABLISHED and whatever the configured times.
C16_EndedSessionUnregistered ==
    \A s \in Slots :
        sess[s].pc = "done" =>
            \A p \in DOMAIN sessions : sessions[p] # s

\* C32: a session whose loop has ended in IDLE has neither its hold timer
\* nor its keepalive timer pending, and the connect-retry timer of its
\* peer, when the peer is passive, is not pending either.
C32_IdleCancelsTimers ==
    \A s \in Slots :
        (sess[s].pc = "done" /\ sess[s].state = "IDLE") =>
            /\ sess[s].hold_timer.task # "pending"
            /\ sess[s].keepalive_timer.task # "pending"
            /\ ~base.active => base.connect_retry_timer.task # "pending"

\* C32 witness: a session of a passive peer, with all three times set, was
\* ESTABLISHED with its timers started and has ended in IDLE
C32_Witness ==
    \E s \in Slots :
        /\ sess[s].pc = "done" /\ sess[s].state = "IDLE"
        /\ sess[s].was_established
        /\ sess[s].hold_timer.delta > 0 /\ sess[s].keepalive_timer.delta > 0
        /\ ~base.active /\ base.connect_retry_timer.delta > 0

\* session s, ESTABLISHED and not cancelled, reads a message of one of the
\* types in this step
ReadsInEstablished(s, types) ==
    /\ sess[s].pc = "read_loop" /\ sess[s].state = "ESTABLISHED"
    /\ ~sess[s].cancelled
    /\ sess'[s].recv.type \in types
    /\ sess'[s].recv # sess[s].recv \/ sess'[s].pc # sess[s].pc

\* C31: when an ESTABLISHED session reads an OPEN, a NOTIFICATION is
\* written to the peer and the session goes to IDLE.
C31_OpenInEstablishedEnds ==
    [][\A s \in Slots :
         ReadsInEstablished(s, {"OPEN"}) =>
            /\ sess'[s].state = "IDLE"
            /\ \E n \in sess'[s].out \ sess[s].out :
                  n.type = "NOTIFICATION"]_vars

\* C37: when an ESTABLISHED session reads a KEEPALIVE, an UPDATE or a
\* ROUTE_REFRESH, it stays ESTABLISHED and its hold timer, if hold_time is
\* not 0, is running afterwards.
C37_ValidMessageKeepsSession ==
    [][\A s \in Slots :
         ReadsInEstablished(s, {"KEEPALIVE", "UPDATE", "ROUTE_REFRESH"}) =>
            /\ sess'[s].state = "ESTABLISHED"
            /\ sess'[s].hold_timer.delta > 0 =>
                  sess'[s].hold_timer.task = "pending"]_vars

\* C34: no two sessions with the same peer_id are in OPEN_CONFIRM or
\* ESTABLISHED at once, and a session in one of these states is the one
\* that the sessions map holds under its peer_id.  A session that was
\* closed and has not yet run its teardown is not counted.
C34_OneLiveSessionPerPeer ==
    LET live == {s \in Slots :
                    /\ sess[s].state \in {"OPEN_CONFIRM", "ESTABLISHED"}
                    /\ ~sess[s].cancelled}
    IN  /\ \A s, t \in live :
               peer_id(sess[s]) = peer_id(sess[t]) => s = t
        /\ \A s \in live :
               /\ peer_id(sess[s]) \in DOMAIN sessions
               /\ sessions[peer_id(sess[s])] = s

(***************************************************************************)
(* Properties of the capability negotiation                                *)
(***************************************************************************)
FourOctetASNs(caps) == {c.asn : c \in {x \in caps : x.cap = "FourOctetASN"}}
MultiprotocolTuples(caps) ==
    {<<c.afi, c.safi>> : c \in {x \in caps : x.cap = "Multiprotocol"}}
RECURSIVE BitAnd(_, _)
BitAnd(x, y) ==
    IF x = 0 \/ y = 0 THEN 0
    ELSE (x % 2) * (y % 2) + 2 * BitAnd(x \div 2, y \div 2)

C17_PeerAsFromOpen ==
    capM # NoMsg =>
        /\ \A a \in FourOctetASNs(capabilities(capM)) : capS.peer_as = a
        /\ FourOctetASNs(capabilities(capM)) = {} => capS.peer_as = capM.asn
        /\ capS.peer_router_id = capM.router_id
        /\ capS.peer_capabilities = capabilities(capM)

\* C18: after load_peer_data on the default decoder, type 2 is decoded by
\* AS4PathAttribute and type 7 by Aggregator4Attribute if both sides
\* advertised FourOctetASNCapability, and by the two-octet ASPathAttribute
\* and AggregatorAttribute otherwise.
C18_DecoderFollowsAsn4 ==
    capM # NoMsg =>
        IF /\ FourOctetASNs(capS.local_capabilities) # {}
           /\ FourOctetASNs(capabilities(capM)) # {}
        THEN /\ path_attribute_type(capS.decoder, 2) = "AS4PathAttribute"
             /\ path_attribute_type(capS.decoder, 7) = "Aggregator4Attribute"
        ELSE /\ path_attribute_type(capS.decoder, 2) = "ASPathAttribute"
             /\ path_attribute_type(capS.decoder, 7) = "AggregatorAttribute"

\* C19: after load_peer_data, common_protocols is the intersection of the
\* (afi, safi) of the local MultiprotocolCapabilities with those of the
\* MultiprotocolCapabilities of the OPEN.
C19_CommonProtocolsIntersect ==
    capM # NoMsg =>
        common_protocols(capS) =
            MultiprotocolTuples(capS.local_capabilities)
                \cap MultiprotocolTuples(capabilities(capM))

\* C20: with an AddPathCapability on both sides, the AddPathCapability of
\* common_capabilities holds, for each (afi, safi) listed by both sides,
\* exactly the tuple with the bitwise AND of the two send_receive values,
\* and nothing for an (afi, safi) that only one side lists.
C20_AddPathAndsSendReceive ==
    capM # NoMsg /\ supports_add_path(capS) =>
        LET l == local_add_path_cap(capS).protos
            p == peer_add_path_cap(capS).protos
        IN \A c \in common_capabilities(capS) :
               c.cap = "AddPath" =>
                   c.protos = {<<x[1], x[2], BitAnd(x[3], y[3])>> :
                                 <<x, y>> \in {z \in l \X p :
                                     z[1][1] = z[2][1] /\ z[1][2] = z[2][2]}}

\* C40: the decoder that load_peer_data installs is the one made from the
\* configured decoder of the session and the capabilities common to the
\* local side and the OPEN just loaded, also when the session has loaded
\* another OPEN before: without a common FourOctetASN capability type 2 is
\* decoded as ASPathAttribute, without a common AddPath capability every
\* NLRI as IPNLRI.
C40_DecoderFromLastOpen ==
    capM # NoMsg =>
        capS.decoder =
            for_capabilities(common_capabilities(capS), default_decoder)

(***************************************************************************)
(* Properties of Route.from_update                                         *)
(***************************************************************************)
\* what from_update is to yield for an UPDATE: the routes of the top-level
\* NLRIs and withdrawn NLRIs as IPv4 unicast, those of every MP_REACH_NLRI
\* and of every MP_UNREACH_NLRI with the afi and safi of that attribute
yields_of(update) ==
    LET attrs == {a \in Range(update.path_attributes) :
                     ~isMPReach(a) /\ ~isMPUnreach(a)}
        mp == {a \in Range(update.path_attributes) :
                  isMPReach(a) \/ isMPUnreach(a)}
    IN  {[action |-> "ANNOUNCE",
          route |-> Route(AFI_IPV4, SAFI_UNICAST, n, attrs)] :
            n \in Range(update.nlri)}
        \cup {[action |-> "WITHDRAW",
               route |-> Route(AFI_IPV4, SAFI_UNICAST, n, attrs)] :
                 n \in Range(update.withdrawn)}
        \cup UNION {{[action |-> IF isMPReach(a) THEN "ANNOUNCE"
                                  ELSE "WITHDRAW",
                      route |-> Route(a.afi, a.safi, n, attrs \cup {a})] :
                        n \in Range(a.nlri)} : a \in mp}

\* C36: from_update yields exactly an ANNOUNCE (IPv4, unicast) for every
\* top-level NLRI, a WITHDRAW (IPv4, unicast) for every top-level withdrawn
\* NLRI, an ANNOUNCE with the afi and safi of the attribute for every NLRI
\* of an MP_REACH_NLRI and a WITHDRAW with the afi and safi of the attribute
\* for every NLRI of an MP_UNREACH_NLRI, whatever MP_REACH_NLRI the UPDATE
\* has.
C36_FromUpdateYields ==
    cout # NoOutput => Range(cout[1]) = yields_of(cin)

(***************************************************************************)
(* Properties of the routing sessions                                      *)
(***************************************************************************)
\* C35: every loop of a session that calls add_set or remove_set of the
\* Loc-RIB, the one of on_update and the one of on_shutdown, runs with
\* loc_rib_lock held.
C35_LocRibUnderLock ==
    \A s \in Slots :
        \A locks \in sess[s].loc_rib_held : "loc_rib_lock" \in locks

\* the routes held in the Loc-RIB and in the Adj-RIB-In of a session
LocRoutes == UNION {v.set : v \in rib_values(loc_rib)}
AdjRoutes(sn) == rib_values(sn.adj_rib_in)
\* the (afi, safi) of the routes an UPDATE carries: IPv4 unicast for its
\* nlri and withdrawn fields, and those of its multiprotocol attributes
CarriedProtos(u) ==
    (IF u.nlri # <<>> \/ u.withdrawn # <<>>
     THEN {<<AFI_IPV4, SAFI_UNICAST>>} ELSE {})
    \cup {<<a.afi, a.safi>> :
            a \in {x \in Range(u.path_attributes) :
                     (isMPReach(x) \/ isMPUnreach(x)) /\ x.nlri # <<>>}}
CarriedNLRIs(u) ==
    Range(u.nlri) \cup Range(u.withdrawn)
    \cup UNION {Range(a.nlri) :
                  a \in {x \in Range(u.path_attributes) :
                           isMPReach(x) \/ isMPUnreach(x)}}

\* every UPDATE that announces a route ends the session that reads it:
\* no session goes on to read a withdrawal after an announcement (C11)
AnnouncementEndsSession ==
    \A s \in Slots :
        sess[s].recv.type = "UPDATE" /\ sess[s].was_established
        /\ (\E x \in Range(from_update(sess[s].recv)) : x.action = "ANNOUNCE")
            => sess[s].pc = "done"

\* the first loop of on_update comes to a route whose proto is not in
\* common_protocols
UnsupportedYielded(sn, u) ==
    LET items == from_update(u)
    IN  \E i \in 1..Len(items) :
            /\ \A j \in 1..i : items[j].action # "raise"
            /\ proto(items[i].route) \notin common_protocols(sn)
====
